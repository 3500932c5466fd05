-------------------------- MODULE FreshWatchlistProofs -------------------------
(***************************************************************************)
(* Proofs about the fresh watchlist, for any number of Create tasks.       *)
(***************************************************************************)
EXTENDS FreshWatchlist, FiniteSetTheorems, TLAPS

\* The three invariants hold together: that `running` does not wrap rests on its
\* being the number of counted tasks, and `active` is exact only because no two
\* tasks watch one mint.
Inv == TypeOK /\ ActiveExact /\ RunningExact

\* What a move of one task does to the sets of watching and counted tasks.
LEMMA Moves ==
    ASSUME NEW t \in Task, NEW from \in States, NEW to \in States,
           pc \in [Task -> States], Goto(t, from, to)
    PROVE  /\ pc' \in [Task -> States]
           /\ \A s \in Task : s # t => pc'[s] = pc[s]
           /\ pc[t] = from /\ pc'[t] = to
BY DEF Goto

\* The number of counted tasks is finite, and follows one task in or out.
LEMMA CountedCard ==
    /\ IsFiniteSet(Counted) /\ Cardinality(Counted) \in Nat
    /\ \A t \in Task : /\ t \notin Counted =>
                             Cardinality(Counted \cup {t}) = Cardinality(Counted) + 1
                       /\ t \in Counted =>
                             /\ Cardinality(Counted \ {t}) = Cardinality(Counted) - 1
                             /\ Cardinality(Counted) > 0
<1>1. IsFiniteSet(Counted)
  <2>1. Counted \subseteq Task
    BY DEF Counted
  <2> QED BY <2>1, WatchlistAssumption, FS_Subset
<1>2. Cardinality(Counted) \in Nat
  BY <1>1, FS_CardinalityType
<1>3. ASSUME NEW t \in Task, t \notin Counted
      PROVE  Cardinality(Counted \cup {t}) = Cardinality(Counted) + 1
  BY <1>1, <1>3, FS_AddElement
<1>4. ASSUME NEW t \in Task, t \in Counted
      PROVE  /\ Cardinality(Counted \ {t}) = Cardinality(Counted) - 1
             /\ Cardinality(Counted) > 0
  <2>1. Cardinality(Counted \ {t}) = Cardinality(Counted) - 1
        /\ IsFiniteSet(Counted \ {t})
    BY <1>1, <1>4, FS_RemoveElement
  <2>2. Cardinality(Counted \ {t}) \in Nat
    BY <2>1, FS_CardinalityType
  <2> QED BY <1>2, <2>1, <2>2
<1> QED BY <1>1, <1>2, <1>3, <1>4

\* One step of one task keeps the three invariants.
LEMMA InvStep ==
    ASSUME Inv, NEW t \in Task, Step(t)
    PROVE  Inv'
<1> USE DEF States
<1>0. /\ TypeOK /\ ActiveExact /\ RunningExact
      /\ pc \in [Task -> States] /\ mintOf \in [Task -> Mint] /\ mintOf[t] \in Mint
  BY DEF Inv, TypeOK
<1>1. CASE TryAddRefused(t)
  <2>1. /\ Watching' = Watching /\ Counted' = Counted
        /\ pc' \in [Task -> States]
    BY <1>0, <1>1, Moves DEF TryAddRefused, Watching, Counted
  <2> QED BY <1>0, <1>1, <2>1
             DEF TryAddRefused, Inv, TypeOK, ActiveExact, RunningExact
<1>2. CASE TryAddAdmitted(t)
  <2>1. /\ Watching' = Watching \cup {t} /\ Counted' = Counted /\ t \notin Watching
        /\ pc' \in [Task -> States]
    BY <1>0, <1>2, Moves DEF TryAddAdmitted, Watching, Counted
  <2>2. TypeOK' /\ RunningExact'
    BY <1>0, <1>2, <2>1 DEF TryAddAdmitted, TypeOK, RunningExact
  <2>3. ActiveExact'
    <3>1. \A s \in Watching : mintOf[s] # mintOf[t]
      BY <1>0, <1>2 DEF TryAddAdmitted, ActiveExact
    <3>2. active' = active \cup {mintOf[t]} /\ mintOf' = mintOf
      BY <1>2 DEF TryAddAdmitted
    <3> QED BY <1>0, <2>1, <3>1, <3>2 DEF ActiveExact
  <2> QED BY <2>2, <2>3 DEF Inv
<1>3. CASE FetchAdd(t)
  <2>1. /\ Watching' = Watching /\ Counted' = Counted \cup {t} /\ t \notin Counted
        /\ pc' \in [Task -> States]
    BY <1>0, <1>3, Moves DEF FetchAdd, Watching, Counted
  <2>2. RunningExact'
    <3>1. running' = running + 1 /\ running = Cardinality(Counted)
      BY <1>0, <1>3 DEF FetchAdd, RunningExact
    <3> QED BY <2>1, <3>1, CountedCard DEF RunningExact
  <2> QED BY <1>0, <1>3, <2>1, <2>2 DEF FetchAdd, Inv, TypeOK, ActiveExact
<1>4. CASE PollFails(t)
  <2>1. Watching' = Watching /\ Counted' = Counted
    BY <1>4 DEF PollFails, Watching, Counted
  <2>2. polls' \in [Task -> 0..MaxPolls]
    BY <1>0, <1>4, WatchlistAssumption DEF PollFails, TypeOK
  <2> QED BY <1>0, <1>4, <2>1, <2>2
             DEF PollFails, Inv, TypeOK, ActiveExact, RunningExact
<1>5. CASE PollPasses(t)
  <2>1. /\ Watching' = Watching /\ Counted' = Counted
        /\ pc' \in [Task -> States]
    BY <1>0, <1>5, Moves DEF PollPasses, Watching, Counted
  <2>2. polls' \in [Task -> 0..MaxPolls]
    BY <1>0, <1>5, WatchlistAssumption DEF PollPasses, TypeOK
  <2> QED BY <1>0, <1>5, <2>1, <2>2
             DEF PollPasses, Inv, TypeOK, ActiveExact, RunningExact
<1>6. CASE DeadlinePasses(t)
  <2>1. /\ Watching' = Watching /\ Counted' = Counted
        /\ pc' \in [Task -> States]
    BY <1>0, <1>6, Moves DEF DeadlinePasses, Watching, Counted
  <2> QED BY <1>0, <1>6, <2>1
             DEF DeadlinePasses, Inv, TypeOK, ActiveExact, RunningExact
<1>7. CASE LeaveActive(t)
  <2>1. /\ Watching' = Watching \ {t} /\ Counted' = Counted /\ t \in Watching
        /\ pc' \in [Task -> States]
    BY <1>0, <1>7, Moves DEF LeaveActive, Watching, Counted
  <2>2. TypeOK' /\ RunningExact'
    BY <1>0, <1>7, <2>1 DEF LeaveActive, TypeOK, RunningExact
  <2>3. ActiveExact'
    <3>1. active' = active \ {mintOf[t]} /\ mintOf' = mintOf
      BY <1>7 DEF LeaveActive
    <3>2. \A s \in Watching : mintOf[s] = mintOf[t] => s = t
      BY <1>0, <2>1 DEF ActiveExact
    <3> QED BY <1>0, <2>1, <3>1, <3>2 DEF ActiveExact
  <2> QED BY <2>2, <2>3 DEF Inv
<1>8. CASE FetchSub(t)
  <2>1. /\ Watching' = Watching /\ Counted' = Counted \ {t} /\ t \in Counted
        /\ pc' \in [Task -> States]
    BY <1>0, <1>8, Moves DEF FetchSub, Watching, Counted
  <2>2. RunningExact' /\ running' \in Nat
    <3>1. running' = running - 1 /\ running = Cardinality(Counted)
      BY <1>0, <1>8 DEF FetchSub, RunningExact
    <3> QED BY <2>1, <3>1, CountedCard DEF RunningExact
  <2>3. scored' \in SUBSET Task
    BY <1>0, <1>8 DEF FetchSub, TypeOK
  <2> QED BY <1>0, <1>8, <2>1, <2>2, <2>3 DEF FetchSub, Inv, TypeOK, ActiveExact
<1> QED BY <1>1, <1>2, <1>3, <1>4, <1>5, <1>6, <1>7, <1>8 DEF Step

\* The three invariants hold in every state.
THEOREM InvAlways == Spec => []Inv
<1>1. Init => Inv
  <2> SUFFICES ASSUME Init PROVE Inv
    OBVIOUS
  <2>1. Watching = {} /\ Counted = {}
    BY DEF Init, Watching, Counted
  <2>2. Cardinality({}) = 0
    BY FS_EmptySet
  <2> QED BY <2>1, <2>2, WatchlistAssumption
             DEF Init, Inv, TypeOK, ActiveExact, RunningExact, States
<1>2. Inv /\ [Next]_vars => Inv'
  <2> SUFFICES ASSUME Inv, [Next]_vars PROVE Inv'
    OBVIOUS
  <2>1. CASE UNCHANGED vars
    BY <2>1 DEF vars, Inv, TypeOK, ActiveExact, RunningExact, Watching, Counted
  <2>2. CASE \E t \in Task : Step(t)
    BY <2>2, InvStep
  <2> QED BY <2>1, <2>2 DEF Next, Finished
<1> QED BY <1>1, <1>2, PTL DEF Spec

\* The counter is a natural number: fetch_sub never wraps it to its maximum, which
\* would refuse every later token.
THEOREM TypeCorrect == Spec => []TypeOK
BY InvAlways, PTL DEF Inv

\* `active` is exactly the set of watched mints, one task each.
THEOREM ActiveExactAlways == Spec => []ActiveExact
BY InvAlways, PTL DEF Inv

\* `running` is exactly the number of tasks between fetch_add and fetch_sub.
THEOREM RunningExactAlways == Spec => []RunningExact
BY InvAlways, PTL DEF Inv
=============================================================================
