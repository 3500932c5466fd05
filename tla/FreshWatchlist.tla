---------------------------- MODULE FreshWatchlist ----------------------------
(***************************************************************************)
(* The fresh watchlist (src/src/pipeline/fresh_watchlist.rs): tokens of    *)
(* first-time devs that failed only on immature statistics are polled for  *)
(* a while before the scoring pipeline runs on them.  Create events are    *)
(* handled by concurrent tasks.  The set `active` is guarded by a mutex;   *)
(* the counter `running` is an atomic that is read inside the critical     *)
(* section but changed outside of it, so every lock section and every      *)
(* atomic operation is a step of its own.                                  *)
(*                                                                         *)
(* A task is one Create event that reaches try_add with the watchlist      *)
(* enabled.  The feed may deliver a Create twice, so two tasks may carry   *)
(* the same mint.                                                          *)
(***************************************************************************)
EXTENDS Integers, FiniteSets

CONSTANTS Task,           \* Create events
          Mint,           \* token addresses
          MaxConcurrent,  \* FreshWatchlistConfig.max_concurrent
          MaxPolls        \* polls before the deadline: max_wait_ms / poll_interval_ms

ASSUME WatchlistAssumption ==
    /\ IsFiniteSet(Task)
    /\ MaxConcurrent \in Nat
    /\ MaxPolls \in Nat \ {0}

VARIABLES
    mintOf,    \* the mint of each event
    pc,        \* where each task is
    active,    \* FreshWatchlistManager.active
    running,   \* FreshWatchlistManager.running
    polls,     \* polls each task has made
    passed,    \* tasks whose last poll passed the B gates
    scored     \* tasks that have entered run_scoring_and_buy

vars == <<mintOf, pc, active, running, polls, passed, scored>>

States == {"create", "admitted", "polling", "decided", "leaving", "done"}

Init ==
    /\ mintOf \in [Task -> Mint]
    /\ pc = [t \in Task |-> "create"]
    /\ active = {}
    /\ running = 0
    /\ polls = [t \in Task |-> 0]
    /\ passed = {}
    /\ scored = {}

Goto(t, from, to) == pc[t] = from /\ pc' = [pc EXCEPT ![t] = to]

-----------------------------------------------------------------------------
\* try_add, inside the lock: already watched, or the cap is reached.  The event is
\* dropped (Duplicate) or rejected by creator_config (CapFull).
TryAddRefused(t) ==
    /\ mintOf[t] \in active \/ running >= MaxConcurrent
    /\ Goto(t, "create", "done")
    /\ UNCHANGED <<mintOf, active, running, polls, passed, scored>>

\* Variant: the duplicate check is forgotten.
TryAddTwice(t) ==
    /\ running < MaxConcurrent
    /\ Goto(t, "create", "admitted")
    /\ active' = active \cup {mintOf[t]}
    /\ UNCHANGED <<mintOf, running, polls, passed, scored>>

\* try_add, inside the lock: the mint is inserted.
TryAddAdmitted(t) ==
    /\ mintOf[t] \notin active
    /\ running < MaxConcurrent
    /\ Goto(t, "create", "admitted")
    /\ active' = active \cup {mintOf[t]}
    /\ UNCHANGED <<mintOf, running, polls, passed, scored>>

\* Variant: the counter is not raised for the new task.
FetchAddForgotten(t) ==
    /\ Goto(t, "admitted", "polling")
    /\ UNCHANGED <<mintOf, active, running, polls, passed, scored>>

\* running.fetch_add after the lock is released; the polling task is spawned.
FetchAdd(t) ==
    /\ Goto(t, "admitted", "polling")
    /\ running' = running + 1
    /\ UNCHANGED <<mintOf, active, polls, passed, scored>>

\* One sleep and one poll_b_gates: no bucket or a gate fails, and the deadline has
\* not passed yet.
PollFails(t) ==
    /\ pc[t] = "polling"
    /\ polls[t] < MaxPolls
    /\ polls' = [polls EXCEPT ![t] = @ + 1]
    /\ UNCHANGED <<mintOf, pc, active, running, passed, scored>>

\* tier_b_poll_passes: leave the loop.
PollPasses(t) ==
    /\ polls[t] < MaxPolls
    /\ Goto(t, "polling", "decided")
    /\ polls' = [polls EXCEPT ![t] = @ + 1]
    /\ passed' = passed \cup {t}
    /\ UNCHANGED <<mintOf, active, running, scored>>

\* Variant: a token that never passed waits on without a deadline.
NeverExpires(t) ==
    /\ polls[t] > MaxPolls
    /\ Goto(t, "polling", "decided")
    /\ UNCHANGED <<mintOf, active, running, polls, passed, scored>>

\* The deadline: the loop ends without a pass.
DeadlinePasses(t) ==
    /\ polls[t] > 0
    /\ Goto(t, "polling", "decided")
    /\ UNCHANGED <<mintOf, active, running, polls, passed, scored>>

\* The mint is removed under the lock.
LeaveActive(t) ==
    /\ Goto(t, "decided", "leaving")
    /\ active' = active \ {mintOf[t]}
    /\ UNCHANGED <<mintOf, running, polls, passed, scored>>

\* Variant: only a token that passed gives its slot back.
FetchSubOnPass(t) ==
    /\ Goto(t, "leaving", "done")
    /\ running' = IF t \in passed THEN running - 1 ELSE running
    /\ scored' = IF t \in passed THEN scored \cup {t} ELSE scored
    /\ UNCHANGED <<mintOf, active, polls, passed>>

\* running.fetch_sub, then run_scoring_and_buy for a token that passed.
FetchSub(t) ==
    /\ Goto(t, "leaving", "done")
    /\ running' = running - 1
    /\ scored' = IF t \in passed THEN scored \cup {t} ELSE scored
    /\ UNCHANGED <<mintOf, active, polls, passed>>

Step(t) ==
    \/ TryAddRefused(t) \/ TryAddAdmitted(t) \/ FetchAdd(t)
    \/ PollFails(t) \/ PollPasses(t) \/ DeadlinePasses(t)
    \/ LeaveActive(t) \/ FetchSub(t)

\* Every Create event has been handled.
Finished == (\A t \in Task : pc[t] = "done") /\ UNCHANGED vars

Next == (\E t \in Task : Step(t)) \/ Finished

\* Tasks are scheduled and sleeps end; polls cannot go on for ever.
Spec == Init /\ [][Next]_vars
FairSpec == Spec /\ \A t \in Task : WF_vars(Step(t))

-----------------------------------------------------------------------------
(***************************************************************************)
(* Properties.                                                             *)
(***************************************************************************)

\* Type invariant: running, a usize, never wraps below zero.
TypeOK ==
    /\ mintOf \in [Task -> Mint]
    /\ pc \in [Task -> States]
    /\ active \in SUBSET Mint
    /\ running \in Nat
    /\ polls \in [Task -> 0..MaxPolls]
    /\ passed \in SUBSET Task
    /\ scored \in SUBSET Task

\* Tasks that own an entry of `active`, and tasks counted in `running`.
Watching == {t \in Task : pc[t] \in {"admitted", "polling", "decided"}}
Counted == {t \in Task : pc[t] \in {"polling", "decided", "leaving"}}

\* A mint is watched by one task at a time and `active` names exactly the mints
\* watched, so that the task that leaves never removes the entry of another.
ActiveExact ==
    /\ active = {mintOf[t] : t \in Watching}
    /\ \A s, t \in Watching : mintOf[s] = mintOf[t] => s = t

\* The counter outside the lock never drifts: it is the number of tasks between
\* fetch_add and fetch_sub, however adds and subs interleave.
RunningExact == running = Cardinality(Counted)

\* Every watched token is decided and gives its slot back in the end, so a full
\* watchlist never stays full.
SlotsReturn == <>[](running = 0 /\ active = {})
=============================================================================
