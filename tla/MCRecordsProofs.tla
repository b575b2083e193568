-------------------------- MODULE MCRecordsProofs --------------------------
(***************************************************************************)
(* The safety properties of the desktop client that the run of MCRecords   *)
(* checks, for any values of its constants: of MatchRecords for any        *)
(* matches, default maps and bots, and any number of notifications, writes *)
(* under way and restarts; of the migration and the pages from invariants  *)
(* of their own, and of the list of matches from what a sort by insertion  *)
(* returns.                                                                *)
(***************************************************************************)
EXTENDS MCRecords, FiniteSetTheorems, SequenceTheorems, WellFoundedInduction, TLAPS
-----------------------------------------------------------------------------
(* Matches, maps and bots *)

Notes == {"Error", "Finished"} \X Matches

\* What a table can hold.
Values ==
    [matches |-> [Matches -> {"none", "playing", "finished", "error"}],
     bots |-> SUBSET Bots, maps |-> SUBSET Maps, notifications |-> Seq(Notes)]

IsStore(state) == DOMAIN state = Tables /\ \A t \in Tables : state[t] \in Values[t]

Typed ==
    /\ app \in {"down", "up"}
    /\ IsStore(store) /\ IsStore(mem) /\ IsStore(file)
    /\ syncs \in Nat
    /\ runner \in [Matches -> {"none", "running", "failed", "ended"}]
    /\ onDisk \in [Matches -> 0 .. MaxEntries]
    /\ thrown \in {"nothing", "not_playing", "no_log"}
    /\ toImport \subseteq Maps \union Bots
    /\ app = "down" => toImport = {}

AllValues == UNION {Values[t] : t \in Tables}
Writes == [table : Tables, value : AllValues]

WritesTyped ==
    /\ writes \in Seq(Writes)
    /\ \A i \in 1 .. Len(writes) : writes[i].value \in Values[writes[i].table]

\* The last write of a table under way brings what the store has, or the
\* database has it already.
Follows(t) ==
    \/ /\ \A i \in 1 .. Len(writes) : writes[i].table # t
       /\ mem[t] = store[t]
    \/ \E i \in 1 .. Len(writes) :
         /\ writes[i].table = t /\ writes[i].value = store[t]
         /\ \A k \in 1 .. Len(writes) : writes[k].table = t => k <= i

\* Wherever a match is recorded it was played, and has a log if it is finished.
Recorded(records) ==
    \A m \in Matches :
        /\ records[m] = "finished" => onDisk[m] > 0
        /\ runner[m] = "none" => records[m] = "none"

MatchesOK ==
    /\ Recorded(store.matches) /\ Recorded(mem.matches) /\ Recorded(file.matches)
    /\ \A i \in 1 .. Len(writes) :
         writes[i].table = "matches" => Recorded(writes[i].value)

\* The inductive invariant.
IInv ==
    /\ RecordsAssumption
    /\ Typed /\ WritesTyped
    /\ seen = store
    /\ app = "up" => \A t \in Tables \ {"notifications"} : Follows(t)
    /\ MatchesOK
-----------------------------------------------------------------------------
(* Operators *)

LEMMA SetToSeqFacts ==
  ASSUME NEW S, IsFiniteSet(S)
  PROVE  /\ SetToSeq(S) \in Seq(S)
         /\ \A x \in S : \E i \in 1 .. Len(SetToSeq(S)) : SetToSeq(S)[i] = x
         /\ \A i, k \in 1 .. Len(SetToSeq(S)) :
              SetToSeq(S)[i] = SetToSeq(S)[k] => i = k
<1> DEFINE n == Cardinality(S)
           s == SetToSeq(S)
<1>1. n \in Nat /\ ExistsBijection(1 .. n, S)
  BY FS_CardinalityType
<1>2. \E f \in [1 .. n -> S] : IsInjective(f)
  BY <1>1 DEF ExistsBijection, Bijection, Injection
<1>3. s \in [1 .. n -> S] /\ IsInjective(s)
  BY <1>2 DEF SetToSeq
<1> HIDE DEF s
<1>4. s \in Seq(S) /\ Len(s) = n
  BY <1>1, <1>3
<1>5. \A i, k \in 1 .. n : s[i] = s[k] => i = k
  BY <1>3 DEF IsInjective
<1>6. \A x \in S : \E i \in 1 .. n : s[i] = x
  <2>1. Cardinality(1 .. n) = Cardinality(S) /\ IsFiniteSet(1 .. n)
    BY <1>1, FS_Interval
  <2>2. s \in Injection(1 .. n, S)
    BY <1>3 DEF Injection
  <2>3. s \in Surjection(1 .. n, S)
    BY <2>1, <2>2, FS_Injection
  <2> QED
    BY <2>3 DEF Surjection
<1> QED
  BY <1>4, <1>5, <1>6 DEF s

\* Setting one table of a store.
LEMMA SetTable ==
  ASSUME NEW state, IsStore(state), NEW t \in Tables, NEW v \in Values[t]
  PROVE  /\ IsStore([state EXCEPT ![t] = v])
         /\ [state EXCEPT ![t] = v][t] = v
         /\ \A u \in Tables : u # t => [state EXCEPT ![t] = v][u] = state[u]
BY DEF IsStore

LEMMA TableTypes ==
  ASSUME NEW state, IsStore(state)
  PROVE  /\ state.matches \in [Matches -> {"none", "playing", "finished", "error"}]
         /\ state.bots \subseteq Bots /\ state.maps \subseteq Maps
         /\ state.notifications \in Seq(Notes)
BY DEF IsStore, Values, Tables

\* What the listener writes: the tables that changed, each once.
LEMMA WritesForFacts ==
  ASSUME NEW state, IsStore(state), IsStore(seen)
  PROVE  LET new == WritesFor(state) IN
         /\ new \in Seq(Writes)
         /\ \A i \in 1 .. Len(new) :
              \E t \in Tables : state[t] # seen[t] /\ new[i] = [table |-> t, value |-> state[t]]
         /\ \A t \in Tables : state[t] # seen[t] =>
              \E i \in 1 .. Len(new) : new[i] = [table |-> t, value |-> state[t]]
         /\ \A i, k \in 1 .. Len(new) : new[i].table = new[k].table => i = k
<1> DEFINE W(t) == [table |-> t, value |-> state[t]]
           S == {W(t) : t \in {u \in Tables : state[u] # seen[u]}}
           new == WritesFor(state)
<1>1. new = SetToSeq(S)
  BY DEF WritesFor, Write, Accessor
<1>2. IsFiniteSet(S)
  <2> DEFINE one == {W("matches")}
             two == one \union {W("bots")}
             three == two \union {W("maps")}
             all == three \union {W("notifications")}
  <2>1. IsFiniteSet(one)
    BY FS_Singleton
  <2>2. IsFiniteSet(two)
    <3> HIDE DEF one
    <3> QED
      BY <2>1, FS_AddElement
  <2>3. IsFiniteSet(three)
    <3> HIDE DEF two
    <3> QED
      BY <2>2, FS_AddElement
  <2>4. IsFiniteSet(all)
    <3> HIDE DEF three
    <3> QED
      BY <2>3, FS_AddElement
  <2>5. S \subseteq all
    BY DEF Tables
  <2> HIDE DEF all, S
  <2> QED
    BY <2>4, <2>5, FS_Subset
<1>3. \A w \in S : w \in Writes
  BY DEF IsStore, Writes, AllValues
<1> HIDE DEF S
<1>4. /\ new \in Seq(S)
      /\ \A x \in S : \E i \in 1 .. Len(new) : new[i] = x
      /\ \A i, k \in 1 .. Len(new) : new[i] = new[k] => i = k
  BY <1>1, <1>2, SetToSeqFacts
<1> HIDE DEF new
<1>5. new \in Seq(Writes) /\ \A i \in 1 .. Len(new) : new[i] \in S
  BY <1>3, <1>4
<1>6. \A t \in Tables : state[t] # seen[t] => \E i \in 1 .. Len(new) : new[i] = W(t)
  BY <1>4 DEF S
<1>7. \A i \in 1 .. Len(new) : \E t \in Tables : state[t] # seen[t] /\ new[i] = W(t)
  BY <1>5 DEF S
<1>8. \A i, k \in 1 .. Len(new) : new[i].table = new[k].table => i = k
  <2> SUFFICES ASSUME NEW i \in 1 .. Len(new), NEW k \in 1 .. Len(new),
                      new[i].table = new[k].table
               PROVE  i = k
    OBVIOUS
  <2>1. PICK t \in Tables : new[i] = W(t)
    BY <1>7
  <2>2. PICK u \in Tables : new[k] = W(u)
    BY <1>7
  <2>3. new[i] = new[k]
    BY <2>1, <2>2
  <2> QED
    BY <1>4, <2>3
<1> QED
  BY <1>5, <1>6, <1>7, <1>8 DEF new

\* A dispatch: what was under way still is, and each table that changed is
\* written after it.
LEMMA Dispatched ==
  ASSUME WritesTyped, seen = store, IsStore(store), NEW state, IsStore(state),
         Dispatch(state)
  PROVE  /\ store' = state /\ seen' = state /\ WritesTyped'
         /\ Len(writes) \in Nat /\ Len(writes') \in Nat /\ Len(writes) <= Len(writes')
         /\ \A i \in 1 .. Len(writes) : writes'[i] = writes[i]
         /\ \A i \in Len(writes) + 1 .. Len(writes') :
              \E t \in Tables : state[t] # store[t]
                             /\ writes'[i] = [table |-> t, value |-> state[t]]
         /\ \A t \in Tables : state[t] # store[t] =>
              \E i \in Len(writes) + 1 .. Len(writes') :
                writes'[i] = [table |-> t, value |-> state[t]]
         /\ \A i, k \in Len(writes) + 1 .. Len(writes') :
              writes'[i].table = writes'[k].table => i = k
<1> DEFINE new == WritesFor(state)
           n == Len(writes)
<1>1. store' = state /\ writes' = writes \o new /\ seen' = state
  BY DEF Dispatch, Remembered
<1>2. /\ new \in Seq(Writes)
      /\ \A i \in 1 .. Len(new) :
           \E t \in Tables : state[t] # store[t] /\ new[i] = [table |-> t, value |-> state[t]]
      /\ \A t \in Tables : state[t] # store[t] =>
           \E i \in 1 .. Len(new) : new[i] = [table |-> t, value |-> state[t]]
      /\ \A i, k \in 1 .. Len(new) : new[i].table = new[k].table => i = k
  <2>1. IsStore(seen) /\ IsStore(state) /\ seen = store
    OBVIOUS
  <2>2. /\ WritesFor(state) \in Seq(Writes)
        /\ \A i \in 1 .. Len(WritesFor(state)) :
             \E t \in Tables :
               state[t] # seen[t] /\ WritesFor(state)[i] = [table |-> t, value |-> state[t]]
        /\ \A t \in Tables : state[t] # seen[t] =>
             \E i \in 1 .. Len(WritesFor(state)) :
               WritesFor(state)[i] = [table |-> t, value |-> state[t]]
        /\ \A i, k \in 1 .. Len(WritesFor(state)) :
             WritesFor(state)[i].table = WritesFor(state)[k].table => i = k
    BY ONLY <2>1, WritesForFacts
  <2> QED
    BY ONLY <2>1, <2>2
<1> HIDE DEF new
<1>3. /\ writes' \in Seq(Writes) /\ n \in Nat /\ Len(new) \in Nat /\ Len(writes') = n + Len(new)
      /\ \A i \in 1 .. n : writes'[i] = writes[i]
      /\ \A i \in 1 .. Len(new) : writes'[n + i] = new[i]
      /\ \A i \in n + 1 .. Len(writes') : i - n \in 1 .. Len(new) /\ writes'[i] = new[i - n]
  BY <1>1, <1>2 DEF WritesTyped
<1>4. \A i \in n + 1 .. Len(writes') :
        \E t \in Tables : state[t] # store[t]
                       /\ writes'[i] = [table |-> t, value |-> state[t]]
  <2> SUFFICES ASSUME NEW i \in n + 1 .. Len(writes')
               PROVE  \E t \in Tables : state[t] # store[t]
                                      /\ writes'[i] = [table |-> t, value |-> state[t]]
    OBVIOUS
  <2>1. i - n \in 1 .. Len(new) /\ writes'[i] = new[i - n]
    BY <1>3
  <2> QED
    BY <1>2, <2>1
<1>5. \A t \in Tables : state[t] # store[t] =>
        \E i \in n + 1 .. Len(writes') : writes'[i] = [table |-> t, value |-> state[t]]
  <2> SUFFICES ASSUME NEW t \in Tables, state[t] # store[t]
               PROVE  \E i \in n + 1 .. Len(writes') :
                        writes'[i] = [table |-> t, value |-> state[t]]
    OBVIOUS
  <2>1. PICK i \in 1 .. Len(new) : new[i] = [table |-> t, value |-> state[t]]
    BY <1>2
  <2>2. n + i \in n + 1 .. Len(writes') /\ writes'[n + i] = new[i]
    BY <1>3
  <2> QED
    BY <2>1, <2>2
<1>6. \A i \in 1 .. Len(writes') : writes'[i].value \in Values[writes'[i].table]
  <2> SUFFICES ASSUME NEW i \in 1 .. Len(writes')
               PROVE  writes'[i].value \in Values[writes'[i].table]
    OBVIOUS
  <2>1. CASE i <= n
    BY <1>3, <2>1 DEF WritesTyped
  <2>2. CASE i > n
    <3>1. i \in n + 1 .. Len(writes')
      BY <1>3, <2>2
    <3>2. PICK t \in Tables : writes'[i] = [table |-> t, value |-> state[t]]
      BY <1>4, <3>1
    <3>3. state[t] \in Values[t]
      BY DEF IsStore
    <3> QED
      BY <3>2, <3>3
  <2> QED
    BY <1>3, <2>1, <2>2
<1>7. WritesTyped'
  BY <1>3, <1>6 DEF WritesTyped
<1>8. Len(writes') \in Nat /\ Len(writes) <= Len(writes')
  BY <1>3
<1>9. \A i, k \in n + 1 .. Len(writes') : writes'[i].table = writes'[k].table => i = k
  <2> SUFFICES ASSUME NEW i \in n + 1 .. Len(writes'), NEW k \in n + 1 .. Len(writes'),
                      writes'[i].table = writes'[k].table
               PROVE  i = k
    OBVIOUS
  <2>1. /\ i - n \in 1 .. Len(new) /\ writes'[i] = new[i - n]
        /\ k - n \in 1 .. Len(new) /\ writes'[k] = new[k - n]
    BY <1>3
  <2>2. i - n = k - n
    BY <1>2, <2>1
  <2> QED
    BY <1>3, <2>2
<1> QED
  BY <1>1, <1>3, <1>4, <1>5, <1>7, <1>8, <1>9
-----------------------------------------------------------------------------
(* The invariant *)

LEMMA InitInv ==
  ASSUME RecordsAssumption, Init
  PROVE  IInv
<1>1. IsStore(NoRecords)
  BY DEF NoRecords, IsStore, Values, Tables
<1>2. Typed
  BY <1>1 DEF Init, Typed, RecordsAssumption
<1>3. WritesTyped
  BY DEF Init, WritesTyped
<1>4. MatchesOK
  BY DEF Init, MatchesOK, Recorded, NoRecords
<1> QED
  BY <1>2, <1>3, <1>4 DEF Init, IInv

\* A dispatch while the app runs, which may end a match or begin one.
LEMMA DispatchInv ==
  ASSUME IInv, app = "up", NEW state, IsStore(state), Dispatch(state),
         UNCHANGED <<app, mem, file, onDisk>>, syncs' \in Nat,
         runner' \in [Matches -> {"none", "running", "failed", "ended"}],
         thrown' \in {"nothing", "not_playing", "no_log"}, toImport' \subseteq toImport,
         \A m \in Matches : runner'[m] = "none" => runner[m] = "none",
         \A m \in Matches : state.matches[m] # store.matches[m] =>
             runner'[m] # "none" /\ (state.matches[m] = "finished" => onDisk[m] > 0)
  PROVE  IInv'
<1> USE DEF IInv
<1> DEFINE n == Len(writes)
<1>1. /\ store' = state /\ seen' = state /\ WritesTyped'
      /\ n \in Nat /\ Len(writes') \in Nat /\ n <= Len(writes')
      /\ \A i \in 1 .. n : writes'[i] = writes[i]
      /\ \A i \in n + 1 .. Len(writes') :
           \E t \in Tables : state[t] # store[t]
                          /\ writes'[i] = [table |-> t, value |-> state[t]]
      /\ \A t \in Tables : state[t] # store[t] =>
           \E i \in n + 1 .. Len(writes') : writes'[i] = [table |-> t, value |-> state[t]]
      /\ \A i, k \in n + 1 .. Len(writes') : writes'[i].table = writes'[k].table => i = k
  BY Dispatched DEF Typed
<1>2. Typed'
  BY <1>1 DEF Typed
<1>3. ASSUME NEW t \in Tables \ {"notifications"} PROVE Follows(t)'
  <2>1. \A i \in 1 .. Len(writes') : i <= n \/ i \in n + 1 .. Len(writes')
    BY <1>1
  <2>2. CASE state[t] = store[t]
    <3>1. ASSUME NEW i \in n + 1 .. Len(writes') PROVE writes'[i].table # t
      <4>1. PICK u \in Tables : state[u] # store[u] /\ writes'[i] = [table |-> u, value |-> state[u]]
        BY <1>1
      <4> QED
        BY <2>2, <4>1
    <3>2. \A i \in 1 .. Len(writes') :
            writes'[i].table = t => i \in 1 .. n /\ writes'[i] = writes[i]
      BY <1>1, <2>1, <3>1
    <3>3. CASE (\A i \in 1 .. n : writes[i].table # t) /\ mem[t] = store[t]
      BY <1>1, <2>2, <3>2, <3>3 DEF Follows
    <3>4. CASE ~((\A i \in 1 .. n : writes[i].table # t) /\ mem[t] = store[t])
      <4>1. PICK i \in 1 .. n :
               /\ writes[i].table = t /\ writes[i].value = store[t]
               /\ \A k \in 1 .. n : writes[k].table = t => k <= i
        BY <3>4 DEF Follows
      <4>2. i \in 1 .. Len(writes') /\ writes'[i].table = t /\ writes'[i].value = store'[t]
        BY <1>1, <2>2, <4>1
      <4>3. \A k \in 1 .. Len(writes') : writes'[k].table = t => k <= i
        BY <3>2, <4>1
      <4> QED
        BY <4>2, <4>3 DEF Follows
    <3> QED
      BY <3>3, <3>4
  <2>3. CASE state[t] # store[t]
    <3>1. PICK i \in n + 1 .. Len(writes') : writes'[i] = [table |-> t, value |-> state[t]]
      BY <1>1, <2>3
    <3>2. i \in 1 .. Len(writes') /\ writes'[i].table = t /\ writes'[i].value = store'[t]
      BY <1>1, <3>1
    <3>3. \A k \in 1 .. Len(writes') : writes'[k].table = t => k <= i
      BY <1>1, <2>1, <3>1, <3>2
    <3> QED
      BY <3>2, <3>3 DEF Follows
  <2> QED
    BY <2>2, <2>3
<1>4. MatchesOK'
  <2>1. \A r : Recorded(r) => Recorded(r)'
    BY DEF Recorded
  <2>2. Recorded(state.matches)'
    BY DEF MatchesOK, Recorded
  <2>3. Recorded(store.matches)' /\ Recorded(mem.matches)' /\ Recorded(file.matches)'
    BY <1>1, <2>1, <2>2 DEF MatchesOK
  <2>4. ASSUME NEW i \in 1 .. Len(writes'), writes'[i].table = "matches"
        PROVE  Recorded(writes[i].value)'
    <3>1. CASE i <= n
      <4>1. i \in 1 .. n /\ writes'[i] = writes[i]
        BY <1>1, <3>1
      <4>2. Recorded(writes[i].value)
        BY <2>4, <4>1 DEF MatchesOK
      <4> QED
        BY <4>1, <4>2 DEF Recorded
    <3>2. CASE i > n
      <4>1. i \in n + 1 .. Len(writes')
        BY <1>1, <3>2
      <4>2. PICK t \in Tables : writes'[i] = [table |-> t, value |-> state[t]]
        BY <1>1, <4>1
      <4>3. writes'[i].value = state.matches
        BY <2>4, <4>2
      <4> QED
        BY <2>2, <4>3 DEF Recorded
    <3> QED
      BY <1>1, <3>1, <3>2
  <2> QED
    BY <2>3, <2>4 DEF MatchesOK
<1> QED
  BY <1>1, <1>2, <1>3, <1>4

\* The stores the actions dispatch.
LEMMA Saved ==
  ASSUME NEW state, IsStore(state), NEW m \in Matches,
         NEW outcome \in {"none", "playing", "finished", "error"}
  PROVE  /\ IsStore(SaveMatch(state, m, outcome))
         /\ SaveMatch(state, m, outcome).matches[m] = outcome
         /\ \A k \in Matches : k # m =>
              SaveMatch(state, m, outcome).matches[k] = state.matches[k]
         /\ \A t \in Tables : t # "matches" => SaveMatch(state, m, outcome)[t] = state[t]
<1> DEFINE v == [state.matches EXCEPT ![m] = outcome]
<1>1. /\ state.matches \in [Matches -> {"none", "playing", "finished", "error"}]
      /\ "matches" \in Tables /\ DOMAIN state = Tables
  BY TableTypes DEF IsStore, Tables
<1>2. /\ v \in Values["matches"] /\ v[m] = outcome
      /\ \A k \in Matches : k # m => v[k] = state.matches[k]
  BY <1>1 DEF Values
<1>3. SaveMatch(state, m, outcome) = [state EXCEPT !["matches"] = v]
  BY <1>1 DEF SaveMatch
<1> HIDE DEF v
<1>4. /\ IsStore([state EXCEPT !["matches"] = v])
      /\ [state EXCEPT !["matches"] = v]["matches"] = v
      /\ \A u \in Tables : u # "matches" => [state EXCEPT !["matches"] = v][u] = state[u]
  BY <1>1, <1>2, SetTable
<1> QED
  BY <1>2, <1>3, <1>4

LEMMA Notified ==
  ASSUME NEW state, IsStore(state), NEW m \in Matches, NEW type \in {"Error", "Finished"}
  PROVE  /\ IsStore(Notify(state, m, type))
         /\ Notify(state, m, type).notifications = Append(state.notifications, <<type, m>>)
         /\ \A t \in Tables : t # "notifications" => Notify(state, m, type)[t] = state[t]
         /\ Notify(state, m, type).matches = state.matches
<1> DEFINE v == Append(state.notifications, <<type, m>>)
<1>1. /\ state.notifications \in Seq(Notes)
      /\ "notifications" \in Tables /\ "matches" \in Tables /\ DOMAIN state = Tables
  BY TableTypes DEF IsStore, Tables
<1>2. v \in Values["notifications"]
  BY <1>1 DEF Values, Notes
<1>3. Notify(state, m, type) = [state EXCEPT !["notifications"] = v]
  BY <1>1 DEF Notify
<1> HIDE DEF v
<1>4. /\ IsStore([state EXCEPT !["notifications"] = v])
      /\ [state EXCEPT !["notifications"] = v]["notifications"] = v
      /\ \A u \in Tables : u # "notifications" =>
           [state EXCEPT !["notifications"] = v][u] = state[u]
  BY <1>1, <1>2, SetTable
<1> QED
  BY <1>1, <1>3, <1>4 DEF v

\* A completion changes the match from playing to finished, or nothing.
LEMMA Completion ==
  ASSUME NEW state, IsStore(state), NEW m \in Matches
  PROVE  /\ IsStore(Completed(state, m))
         /\ Completed(state, m).notifications = state.notifications
         /\ CompletionThrows(state, m) \in {"nothing", "not_playing", "no_log"}
         /\ \A k \in Matches : Completed(state, m).matches[k] # state.matches[k] =>
              /\ k = m /\ state.matches[m] = "playing"
              /\ Completed(state, m).matches[m] = "finished"
              /\ onDisk[m] > 0 /\ CompletionThrows(state, m) = "nothing"
<1>1. CompletionThrows(state, m) \in {"nothing", "not_playing", "no_log"}
  BY DEF CompletionThrows
<1>2. CASE CompletionThrows(state, m) = "nothing"
  <2>1. state.matches[m] = "playing" /\ onDisk[m] > 0
    BY <1>2 DEF CompletionThrows, Completable, Parses
  <2>2. Completed(state, m) = SaveMatch(state, m, "finished")
    BY <1>2 DEF Completed
  <2>3. /\ IsStore(SaveMatch(state, m, "finished"))
        /\ SaveMatch(state, m, "finished").matches[m] = "finished"
        /\ \A k \in Matches : k # m =>
             SaveMatch(state, m, "finished").matches[k] = state.matches[k]
    BY Saved
  <2>4. SaveMatch(state, m, "finished").notifications = state.notifications
    BY DEF SaveMatch, IsStore, Tables
  <2> QED
    BY <1>1, <1>2, <2>1, <2>2, <2>3, <2>4
<1>3. CASE CompletionThrows(state, m) # "nothing"
  BY <1>1, <1>3 DEF Completed
<1> QED
  BY <1>2, <1>3

\* An error changes the match from playing to error, or nothing.
LEMMA Failure ==
  ASSUME NEW state, IsStore(state), NEW m \in Matches
  PROVE  /\ IsStore(Errored(state, m))
         /\ Errored(state, m).notifications = state.notifications
         /\ \A k \in Matches : Errored(state, m).matches[k] # state.matches[k] =>
              /\ k = m /\ state.matches[m] = "playing"
              /\ Errored(state, m).matches[m] = "error"
<1>1. CASE m \in Hosted /\ state.matches[m] = "playing"
  <2>1. Errored(state, m) = SaveMatch(state, m, "error")
    BY <1>1 DEF Errored
  <2>2. /\ IsStore(SaveMatch(state, m, "error"))
        /\ SaveMatch(state, m, "error").matches[m] = "error"
        /\ \A k \in Matches : k # m =>
             SaveMatch(state, m, "error").matches[k] = state.matches[k]
    BY Saved
  <2>3. SaveMatch(state, m, "error").notifications = state.notifications
    BY DEF SaveMatch, IsStore, Tables
  <2> QED
    BY <1>1, <2>1, <2>2, <2>3
<1>2. CASE ~(m \in Hosted /\ state.matches[m] = "playing")
  BY <1>2 DEF Errored
<1> QED
  BY <1>1, <1>2
-----------------------------------------------------------------------------
(* The actions *)

LEMMA UpdateInv == IInv /\ UpdateDatabase => IInv'
<1> SUFFICES ASSUME IInv, UpdateDatabase PROVE IInv'
  OBVIOUS
<1> USE DEF IInv
<1> DEFINE w == Head(writes)
           n == Len(writes)
<1>1. /\ app = "up" /\ writes # <<>> /\ mem' = [mem EXCEPT ![w.table] = w.value]
      /\ writes' = Tail(writes) /\ syncs' = syncs + 1
      /\ UNCHANGED <<app, store, seen, file, toImport, runner, onDisk, thrown>>
  BY DEF UpdateDatabase, matchVars
<1>2. /\ writes \in Seq(Writes) /\ writes' \in Seq(Writes)
      /\ n \in Nat \ {0} /\ Len(writes') = n - 1
      /\ \A i \in 1 .. n - 1 : i + 1 \in 1 .. n /\ writes'[i] = writes[i + 1]
      /\ w = writes[1] /\ 1 \in 1 .. n
  BY <1>1 DEF WritesTyped
<1>3. w.table \in Tables /\ w.value \in Values[w.table]
  <2>1. writes[1] \in Writes
    BY <1>2
  <2>2. writes[1].value \in Values[writes[1].table]
    BY <1>2 DEF WritesTyped
  <2> QED
    BY <1>2, <2>1, <2>2 DEF Writes
<1> HIDE DEF w
<1>4. /\ IsStore(mem') /\ mem'[w.table] = w.value
      /\ \A u \in Tables : u # w.table => mem'[u] = mem[u]
  <2>1. IsStore(mem)
    BY DEF Typed
  <2>2. /\ IsStore([mem EXCEPT ![w.table] = w.value])
        /\ [mem EXCEPT ![w.table] = w.value][w.table] = w.value
        /\ \A u \in Tables : u # w.table => [mem EXCEPT ![w.table] = w.value][u] = mem[u]
    BY <1>3, <2>1, SetTable
  <2> QED
    BY <1>1, <2>2
<1>5. Typed'
  BY <1>1, <1>4 DEF Typed
<1>6. WritesTyped'
  BY <1>2 DEF WritesTyped
<1>7. ASSUME NEW t \in Tables \ {"notifications"} PROVE Follows(t)'
  <2>1. CASE \E i \in 1 .. n : writes[i].table = t /\ i # 1
    <3>1. PICK i \in 1 .. n :
            /\ writes[i].table = t /\ writes[i].value = store[t]
            /\ \A k \in 1 .. n : writes[k].table = t => k <= i
      BY <1>1, <2>1 DEF Follows
    <3>2. i # 1
      BY <2>1, <3>1
    <3>3. i - 1 \in 1 .. n - 1 /\ (i - 1) + 1 = i
      BY <1>2, <3>2
    <3>4. writes'[i - 1] = writes[i]
      BY <1>2, <3>3
    <3>5. ASSUME NEW k \in 1 .. n - 1, writes'[k].table = t PROVE k <= i - 1
      <4>1. k + 1 \in 1 .. n /\ writes[k + 1].table = t
        BY <1>2, <3>5
      <4>2. k + 1 <= i
        BY <3>1, <4>1
      <4> QED
        BY <1>2, <4>2
    <3> QED
      <4>1. /\ i - 1 \in 1 .. Len(writes')
            /\ writes'[i - 1].table = t /\ writes'[i - 1].value = store'[t]
        BY <1>1, <1>2, <3>1, <3>3, <3>4
      <4>2. \A k \in 1 .. Len(writes') : writes'[k].table = t => k <= i - 1
        BY <1>2, <3>5
      <4> QED
        BY <4>1, <4>2 DEF Follows
  <2>2. CASE \A i \in 1 .. n : writes[i].table = t => i = 1
    <3>1. ASSUME NEW k \in 1 .. n - 1 PROVE writes'[k].table # t
      <4>1. k + 1 \in 1 .. n /\ k + 1 # 1 /\ writes'[k] = writes[k + 1]
        BY <1>2
      <4> QED
        BY <2>2, <4>1
    <3>2. mem'[t] = store[t]
      <4>1. CASE w.table = t
        <5>1. \E i \in 1 .. n : writes[i].table = t
          BY <1>2, <4>1
        <5>2. PICK i \in 1 .. n : writes[i].table = t /\ writes[i].value = store[t]
          BY <1>1, <5>1 DEF Follows
        <5>3. i = 1
          BY <2>2, <5>2
        <5> QED
          BY <1>2, <1>4, <4>1, <5>2, <5>3
      <4>2. CASE w.table # t
        <5>1. \A i \in 1 .. n : writes[i].table # t
          BY <1>2, <2>2, <4>2
        <5>2. mem[t] = store[t]
          BY <1>1, <5>1 DEF Follows
        <5> QED
          BY <1>4, <4>2, <5>2
      <4> QED
        BY <4>1, <4>2
    <3> QED
      BY <1>1, <1>2, <3>1, <3>2 DEF Follows
  <2> QED
    BY <2>1, <2>2
<1>8. MatchesOK'
  <2>1. \A r : Recorded(r) <=> Recorded(r)'
    BY <1>1 DEF Recorded
  <2>2. Recorded(mem'.matches)
    <3>1. CASE w.table = "matches"
      BY <1>2, <1>4, <3>1 DEF MatchesOK
    <3>2. CASE w.table # "matches"
      <4>1. mem'["matches"] = mem["matches"]
        BY <1>4, <3>2 DEF Tables
      <4> QED
        BY <4>1 DEF MatchesOK
    <3> QED
      BY <3>1, <3>2
  <2>3. ASSUME NEW i \in 1 .. n - 1, writes'[i].table = "matches"
        PROVE  Recorded(writes'[i].value)
    BY <1>2, <2>3 DEF MatchesOK
  <2> QED
    BY <1>1, <1>2, <2>2, <2>3 DEF MatchesOK, Recorded
<1> QED
  BY <1>1, <1>5, <1>6, <1>7, <1>8

LEMMA DbSyncInv == IInv /\ DbSync => IInv'
<1> SUFFICES ASSUME IInv, DbSync PROVE IInv'
  OBVIOUS
<1>1. /\ app = "up" /\ syncs > 0 /\ syncs' = syncs - 1 /\ Dispatch(store)
      /\ UNCHANGED <<app, mem, file, toImport, runner, onDisk, thrown>>
  BY DEF DbSync, matchVars
<1>2. IsStore(store) /\ syncs' \in Nat
  BY <1>1 DEF IInv, Typed
<1> QED
  BY <1>1, <1>2, DispatchInv DEF IInv, Typed

LEMMA WriteFileInv == IInv /\ WriteFile => IInv'
<1> SUFFICES ASSUME IInv, WriteFile PROVE IInv'
  OBVIOUS
<1> USE DEF IInv
<1>1. file' = mem /\ UNCHANGED <<app, store, seen, writes, syncs, mem, toImport,
                                 runner, onDisk, thrown>>
  BY DEF WriteFile, dbVars, matchVars
<1>2. Typed'
  BY <1>1 DEF Typed, IsStore
<1>3. WritesTyped' /\ MatchesOK'
  BY <1>1 DEF WritesTyped, MatchesOK, Recorded
<1>4. \A t \in Tables : Follows(t)' <=> Follows(t)
  BY <1>1 DEF Follows
<1> QED
  BY <1>1, <1>2, <1>3, <1>4

LEMMA WriteLogInv ==
  ASSUME IInv, NEW m \in Matches, WriteLog(m)
  PROVE  IInv'
<1> USE DEF IInv
<1>1. /\ runner[m] # "none" /\ onDisk[m] < MaxEntries
      /\ onDisk' = [onDisk EXCEPT ![m] = @ + 1]
      /\ UNCHANGED <<app, store, seen, writes, syncs, mem, file, toImport, runner, thrown>>
  BY DEF WriteLog, dbVars
<1>2. onDisk' \in [Matches -> 0 .. MaxEntries] /\ \A k \in Matches : onDisk'[k] >= onDisk[k]
  BY <1>1 DEF Typed, RecordsAssumption
<1>3. Typed'
  BY <1>1, <1>2 DEF Typed, IsStore
<1>4. \A r : Recorded(r) => Recorded(r)'
  BY <1>1, <1>2 DEF Recorded, Typed
<1>5. WritesTyped' /\ MatchesOK'
  BY <1>1, <1>4 DEF WritesTyped, MatchesOK
<1>6. \A t \in Tables : Follows(t)' <=> Follows(t)
  BY <1>1 DEF Follows
<1> QED
  BY <1>1, <1>3, <1>5, <1>6

LEMMA StartInv == IInv /\ Start => IInv'
<1> SUFFICES ASSUME IInv, Start PROVE IInv'
  OBVIOUS
<1> USE DEF IInv
<1>1. /\ app' = "up" /\ mem' = file /\ store' = Imported(file) /\ seen' = Imported(file)
      /\ toImport' = DefaultsFor(Imported(file)) /\ writes' = <<>> /\ syncs' = 0
      /\ thrown' = "nothing" /\ UNCHANGED <<file, runner, onDisk>>
  BY DEF Start, InitialSeen
<1>2. Imported(file) = [file EXCEPT !["notifications"] = <<>>]
  BY DEF Imported
<1>3. "notifications" \in Tables /\ <<>> \in Values["notifications"] /\ IsStore(file)
  BY DEF Tables, Values, Typed
<1>4. /\ IsStore([file EXCEPT !["notifications"] = <<>>])
      /\ \A t \in Tables : t # "notifications" =>
           [file EXCEPT !["notifications"] = <<>>][t] = file[t]
  BY <1>3, SetTable
<1>5. IsStore(store') /\ \A t \in Tables : t # "notifications" => store'[t] = file[t]
  BY <1>1, <1>2, <1>4
<1>6. Typed'
  BY <1>1, <1>5 DEF Typed, IsStore, DefaultsFor
<1>7. WritesTyped'
  BY <1>1 DEF WritesTyped
<1>8. \A t \in Tables \ {"notifications"} : Follows(t)'
  BY <1>1, <1>5 DEF Follows
<1>9. store'.matches = file.matches
  BY <1>5 DEF Tables
<1>10. MatchesOK'
  BY <1>1, <1>9 DEF MatchesOK, Recorded
<1> QED
  BY <1>1, <1>6, <1>7, <1>8, <1>10

LEMMA QuitInv == IInv /\ Quit => IInv'
<1> SUFFICES ASSUME IInv, Quit PROVE IInv'
  OBVIOUS
<1> USE DEF IInv
<1>1. /\ app' = "down" /\ store' = NoRecords /\ seen' = NoRecords /\ mem' = NoRecords
      /\ writes' = <<>> /\ syncs' = 0 /\ toImport' = {}
      /\ runner' = [m \in Matches |-> IF Alive(m) THEN "ended" ELSE runner[m]]
      /\ UNCHANGED <<file, onDisk, thrown>>
  BY DEF Quit
<1>2. IsStore(NoRecords) /\ Recorded(NoRecords.matches)'
  BY DEF NoRecords, IsStore, Values, Tables, Recorded
<1>3. /\ runner' \in [Matches -> {"none", "running", "failed", "ended"}]
      /\ \A m \in Matches : runner'[m] = "none" => runner[m] = "none"
  BY <1>1 DEF Typed
<1>4. Typed'
  BY <1>1, <1>2, <1>3 DEF Typed, IsStore
<1>5. WritesTyped'
  BY <1>1 DEF WritesTyped
<1>6. MatchesOK'
  BY <1>1, <1>2, <1>3 DEF MatchesOK, Recorded
<1> QED
  BY <1>1, <1>4, <1>5, <1>6

LEMMA ImportInv ==
  ASSUME IInv, NEW d \in Maps \union Bots, ImportDefault(d)
  PROVE  IInv'
<1> USE DEF IInv
<1> DEFINE t == FiledUnder(d)
           v == store[t] \union {d}
<1>1. /\ app = "up" /\ toImport' = toImport \ {d}
      /\ Dispatch([store EXCEPT ![t] = @ \union {d}])
      /\ UNCHANGED <<app, mem, file, syncs, runner, onDisk, thrown>>
  BY DEF ImportDefault, matchVars
<1>2. t \in {"maps", "bots"} /\ t \in Tables
  BY DEF FiledUnder, Tables
<1>3. IsStore(store) /\ DOMAIN store = Tables
  BY DEF Typed, IsStore
<1>4. v \in Values[t]
  <2>1. CASE d \in Maps
    BY <1>3, <2>1, TableTypes DEF FiledUnder, Values
  <2>2. CASE d \notin Maps
    BY <1>3, <2>2, TableTypes DEF FiledUnder, Values
  <2> QED
    BY <2>1, <2>2
<1>5. [store EXCEPT ![t] = @ \union {d}] = [store EXCEPT ![t] = v]
  BY <1>2, <1>3
<1> DEFINE state == [store EXCEPT ![t] = v]
<1> HIDE DEF t, v
<1>6. IsStore(state) /\ \A u \in Tables : u # t => state[u] = store[u]
  BY <1>2, <1>3, <1>4, SetTable
<1>7. state.matches = store.matches
  <2>1. "matches" \in Tables /\ "matches" # t
    BY <1>2 DEF Tables
  <2> QED
    BY <1>6, <2>1
<1>8. Dispatch(state)
  BY <1>1, <1>5
<1> HIDE DEF state
<1> QED
  BY <1>1, <1>6, <1>7, <1>8, DispatchInv DEF Typed

LEMMA RemoveBotInv ==
  ASSUME IInv, NEW b, RemoveBot(b)
  PROVE  IInv'
<1> USE DEF IInv
<1> DEFINE v == store.bots \ {b}
           state == [store EXCEPT !["bots"] = v]
<1>1. /\ app = "up" /\ Dispatch([store EXCEPT !.bots = @ \ {b}])
      /\ UNCHANGED <<app, mem, file, syncs, toImport, runner, onDisk, thrown>>
  BY DEF RemoveBot, Acts, matchVars
<1>2. IsStore(store) /\ DOMAIN store = Tables /\ "bots" \in Tables /\ "matches" \in Tables
  BY DEF Typed, IsStore, Tables
<1>3. v \in Values["bots"]
  BY <1>2, TableTypes DEF Values
<1>4. [store EXCEPT !.bots = @ \ {b}] = state
  OBVIOUS
<1>5. IsStore(state) /\ \A u \in Tables : u # "bots" => state[u] = store[u]
  <2> HIDE DEF v
  <2> QED
    BY <1>2, <1>3, SetTable
<1>6. state.matches = store.matches /\ Dispatch(state)
  BY <1>1, <1>2, <1>4, <1>5
<1> HIDE DEF state
<1> QED
  BY <1>1, <1>5, <1>6, DispatchInv DEF Typed

LEMMA RemoveNotificationInv == IInv /\ RemoveNotification => IInv'
<1> SUFFICES ASSUME IInv, RemoveNotification PROVE IInv'
  OBVIOUS
<1> USE DEF IInv
<1>1. PICK kept \in {<<>>, Tail(store.notifications)} :
         Dispatch([store EXCEPT !.notifications = kept])
  BY DEF RemoveNotification
<1>2. /\ app = "up" /\ store.notifications # <<>>
      /\ UNCHANGED <<app, mem, file, syncs, toImport, runner, onDisk, thrown>>
  BY DEF RemoveNotification, matchVars
<1> DEFINE state == [store EXCEPT !["notifications"] = kept]
<1>3. /\ IsStore(store) /\ DOMAIN store = Tables
      /\ "notifications" \in Tables /\ "matches" \in Tables
  BY DEF Typed, IsStore, Tables
<1>4. kept \in Values["notifications"]
  <2>1. store.notifications \in Seq(Notes)
    BY <1>3, TableTypes
  <2>2. <<>> \in Seq(Notes) /\ Tail(store.notifications) \in Seq(Notes)
    BY <1>2, <2>1
  <2> QED
    BY <2>2 DEF Values
<1>5. IsStore(state) /\ \A u \in Tables : u # "notifications" => state[u] = store[u]
  BY <1>3, <1>4, SetTable
<1>6. state.matches = store.matches /\ Dispatch(state)
  BY <1>1, <1>3, <1>5
<1> HIDE DEF state
<1> QED
  BY <1>2, <1>5, <1>6, DispatchInv DEF Typed

LEMMA ClearEmptyInv == IInv /\ ClearEmptyList => IInv'
<1> SUFFICES ASSUME IInv, ClearEmptyList PROVE IInv'
  OBVIOUS
<1> USE DEF IInv
<1> DEFINE w == [table |-> "notifications", value |-> <<>>]
<1>1. /\ writes' = Append(writes, w)
      /\ UNCHANGED <<app, store, seen, syncs, mem, file, toImport, runner, onDisk, thrown>>
  BY DEF ClearEmptyList, Write, Accessor, matchVars
<1>2. Typed'
  BY <1>1 DEF Typed, IsStore
<1>3. w \in Writes /\ w.value \in Values[w.table] /\ w.table = "notifications"
  <2>1. <<>> \in Values["notifications"]
    BY DEF Values
  <2> QED
    BY <2>1 DEF Writes, AllValues, Tables
<1> HIDE DEF w
<1>4. /\ writes' \in Seq(Writes) /\ Len(writes') = Len(writes) + 1 /\ Len(writes) \in Nat
      /\ \A i \in 1 .. Len(writes) : writes'[i] = writes[i]
      /\ writes'[Len(writes) + 1] = w
  BY <1>1, <1>3 DEF WritesTyped
<1>5. \A i \in 1 .. Len(writes') : i \in 1 .. Len(writes) \/ writes'[i] = w
  BY <1>4
<1>6. WritesTyped'
  BY <1>3, <1>4, <1>5 DEF WritesTyped
<1>7. MatchesOK'
  <2>1. \A records : Recorded(records)' <=> Recorded(records)
    BY <1>1 DEF Recorded
  <2>2. \A i \in 1 .. Len(writes') : writes'[i].table = "matches" => Recorded(writes'[i].value)
    BY <1>3, <1>4, <1>5 DEF MatchesOK
  <2> QED
    BY <1>1, <2>2 DEF MatchesOK, Recorded
<1>8. \A t \in Tables \ {"notifications"} : Follows(t) => Follows(t)'
  <2> TAKE t \in Tables \ {"notifications"}
  <2>1. CASE (\A i \in 1 .. Len(writes) : writes[i].table # t) /\ mem[t] = store[t]
    BY <1>1, <1>3, <1>4, <1>5, <2>1 DEF Follows
  <2>2. ASSUME NEW i \in 1 .. Len(writes),
               writes[i].table = t, writes[i].value = store[t],
               \A k \in 1 .. Len(writes) : writes[k].table = t => k <= i
        PROVE  Follows(t)'
    <3>1. i \in 1 .. Len(writes') /\ writes'[i].table = t /\ writes'[i].value = store'[t]
      BY <1>1, <1>4, <2>2
    <3>2. \A k \in 1 .. Len(writes') : writes'[k].table = t => k <= i
      BY <1>3, <1>4, <1>5, <2>2
    <3> QED
      BY <3>1, <3>2 DEF Follows
  <2> QED
    BY <2>1, <2>2 DEF Follows
<1> QED
  BY <1>1, <1>2, <1>6, <1>7, <1>8

LEMMA PlayInv ==
  ASSUME IInv, NEW m \in Matches, PlayMatch(m)
  PROVE  IInv'
<1> DEFINE state == SaveMatch(store, m, "playing")
<1>1. /\ app = "up" /\ runner[m] = "none" /\ Dispatch(state)
      /\ runner' = [runner EXCEPT ![m] = "running"]
      /\ UNCHANGED <<app, mem, file, syncs, toImport, onDisk, thrown>>
  BY DEF PlayMatch, Acts
<1>2. IsStore(store)
  BY DEF IInv, Typed
<1>3. /\ IsStore(state) /\ state.matches[m] = "playing"
      /\ \A k \in Matches : k # m => state.matches[k] = store.matches[k]
  BY <1>2, Saved
<1>4. /\ runner' \in [Matches -> {"none", "running", "failed", "ended"}]
      /\ runner'[m] = "running" /\ \A k \in Matches : runner'[k] = "none" => runner[k] = "none"
  BY <1>1 DEF IInv, Typed
<1> HIDE DEF state
<1> USE DEF IInv
<1> QED
  BY <1>1, <1>3, <1>4, DispatchInv DEF Typed

\* A match that is recorded as being played has been started.
LEMMA PlayingWasStarted ==
  ASSUME IInv, NEW m \in Matches, store.matches[m] = "playing"
  PROVE  runner[m] # "none"
BY DEF IInv, MatchesOK, Recorded

LEMMA ServerFailsInv ==
  ASSUME IInv, NEW m \in Matches, ServerFails(m)
  PROVE  IInv'
<1> USE DEF IInv
<1> DEFINE noted == Notify(store, m, "Error")
           state == Errored(noted, m)
<1>1. /\ app = "up" /\ Dispatch(state)
      /\ runner' = [runner EXCEPT ![m] = "failed"]
      /\ UNCHANGED <<app, mem, file, syncs, toImport, onDisk, thrown>>
  BY DEF ServerFails, Alive
<1>2. IsStore(noted) /\ noted.matches = store.matches
  BY Notified DEF Typed
<1>3. /\ IsStore(state)
      /\ \A k \in Matches : state.matches[k] # store.matches[k] =>
           k = m /\ state.matches[m] = "error"
  <2> HIDE DEF noted
  <2> QED
    BY <1>2, Failure
<1>4. /\ runner' \in [Matches -> {"none", "running", "failed", "ended"}]
      /\ runner'[m] = "failed" /\ \A k \in Matches : runner'[k] = "none" => runner[k] = "none"
  BY <1>1 DEF Typed
<1> HIDE DEF state
<1> QED
  BY <1>1, <1>3, <1>4, DispatchInv DEF Typed

LEMMA ServerExitsInv ==
  ASSUME IInv, NEW m \in Matches, ServerExits(m)
  PROVE  IInv'
<1> USE DEF IInv
<1> DEFINE noted == Notify(store, m, "Finished")
           state == Completed(noted, m)
<1>1. /\ app = "up" /\ Dispatch(state)
      /\ runner' = [runner EXCEPT ![m] = "ended"]
      /\ thrown' = CompletionThrows(store, m)
      /\ UNCHANGED <<app, mem, file, syncs, toImport, onDisk>>
  BY DEF ServerExits, Ends, Alive
<1>2. IsStore(store) /\ IsStore(noted) /\ noted.matches = store.matches
  BY Notified DEF Typed
<1>3. /\ IsStore(state)
      /\ \A k \in Matches : state.matches[k] # store.matches[k] =>
           k = m /\ onDisk[m] > 0
  <2> HIDE DEF noted
  <2> QED
    BY <1>2, Completion
<1>4. thrown' \in {"nothing", "not_playing", "no_log"}
  BY <1>1, <1>2, Completion
<1>5. /\ runner' \in [Matches -> {"none", "running", "failed", "ended"}]
      /\ runner'[m] = "ended" /\ \A k \in Matches : runner'[k] = "none" => runner[k] = "none"
  BY <1>1 DEF Typed
<1> HIDE DEF state
<1> QED
  BY <1>1, <1>3, <1>4, <1>5, DispatchInv DEF Typed

LEMMA ClientErrorsInv ==
  ASSUME IInv, NEW m \in Matches, ClientErrors(m)
  PROVE  IInv'
<1> USE DEF IInv
<1> DEFINE failed == Errored(store, m)
           state == Notify(failed, m, "Error")
<1>1. /\ app = "up" /\ Dispatch(state) /\ runner[m] # "none"
      /\ UNCHANGED <<app, mem, file, syncs, toImport, runner, onDisk, thrown>>
  BY DEF ClientErrors, Alive, matchVars
<1>2. /\ IsStore(failed)
      /\ \A k \in Matches : failed.matches[k] # store.matches[k] =>
           k = m /\ failed.matches[m] = "error"
  BY Failure DEF Typed
<1>3. IsStore(state) /\ state.matches = failed.matches
  <2> HIDE DEF failed
  <2> QED
    BY <1>2, Notified
<1> HIDE DEF state, failed
<1> QED
  BY <1>1, <1>2, <1>3, DispatchInv DEF Typed

LEMMA ClientExitsInv ==
  ASSUME IInv, NEW m \in Matches, ClientExits(m)
  PROVE  IInv'
<1> USE DEF IInv
<1> DEFINE completed == Completed(store, m)
           state == IF thrown' = "nothing" THEN Notify(completed, m, "Finished") ELSE completed
<1>1. /\ app = "up" /\ Dispatch(state)
      /\ runner' = [runner EXCEPT ![m] = "ended"]
      /\ thrown' = CompletionThrows(store, m)
      /\ UNCHANGED <<app, mem, file, syncs, toImport, onDisk>>
  BY DEF ClientExits, Ends, Alive, Announced
<1>2. /\ IsStore(completed)
      /\ \A k \in Matches : completed.matches[k] # store.matches[k] =>
           k = m /\ onDisk[m] > 0
      /\ thrown' \in {"nothing", "not_playing", "no_log"}
  BY <1>1, Completion DEF Typed
<1>3. IsStore(state) /\ state.matches = completed.matches
  <2> HIDE DEF completed
  <2> QED
    BY <1>2, Notified
<1>4. /\ runner' \in [Matches -> {"none", "running", "failed", "ended"}]
      /\ runner'[m] = "ended" /\ \A k \in Matches : runner'[k] = "none" => runner[k] = "none"
  BY <1>1 DEF Typed
<1> HIDE DEF state, completed
<1> QED
  BY <1>1, <1>2, <1>3, <1>4, DispatchInv DEF Typed

LEMMA StutterInv == IInv /\ UNCHANGED vars => IInv'
<1> SUFFICES ASSUME IInv, UNCHANGED vars PROVE IInv'
  OBVIOUS
<1>1. UNCHANGED <<app, store, seen, writes, syncs, mem, file, toImport, runner, onDisk, thrown>>
  BY DEF vars, dbVars, matchVars
<1>2. Typed' /\ WritesTyped' /\ MatchesOK'
  BY <1>1 DEF IInv, Typed, IsStore, WritesTyped, MatchesOK, Recorded
<1>3. \A t \in Tables : Follows(t)' <=> Follows(t)
  BY <1>1 DEF Follows
<1> QED
  BY <1>1, <1>2, <1>3 DEF IInv

LEMMA NextInv == IInv /\ [Next]_vars => IInv'
BY UpdateInv, DbSyncInv, WriteFileInv, WriteLogInv, StartInv, QuitInv, ImportInv,
   RemoveBotInv, RemoveNotificationInv, ClearEmptyInv, PlayInv, ServerFailsInv, ServerExitsInv,
   ClientErrorsInv, ClientExitsInv, StutterInv
   DEF Next

THEOREM Invariance == RecordsAssumption /\ Spec => []IInv
<1> SUFFICES ASSUME RecordsAssumption PROVE Spec => []IInv
  OBVIOUS
<1>1. Init => IInv
  BY InitInv
<1>2. IInv /\ [Next]_vars => IInv'
  BY NextInv
<1> QED
  BY <1>1, <1>2, PTL DEF Spec
-----------------------------------------------------------------------------
(* What holds in every state *)

LEMMA TypesFromInv == IInv => TypeOK
<1> SUFFICES ASSUME IInv PROVE TypeOK
  OBVIOUS
<1>1. Typed
  BY DEF IInv
<1>2. \A state \in {store, mem, file} : IsStore(state)
  BY <1>1 DEF Typed
<1>3. \A state \in {store, mem, file} :
         /\ DOMAIN state = Tables
         /\ state.matches \in [Matches -> {"none", "playing", "finished", "error"}]
         /\ state.bots \subseteq Bots /\ state.maps \subseteq Maps
  BY <1>2, TableTypes DEF IsStore
<1> QED
  BY <1>1, <1>3 DEF Typed, TypeOK

\* The types of the records hold for any matches, defaults and bounds.
THEOREM TypeCorrect == RecordsAssumption /\ Spec => []TypeOK
BY TypesFromInv, Invariance, PTL

LEMMA FollowsFromInv == IInv => DatabaseFollowsStore
<1> SUFFICES ASSUME IInv, app = "up", NEW t \in Tables \ {"notifications"}
             PROVE  Promised(t) = store[t]
  BY DEF DatabaseFollowsStore
<1> DEFINE pending == {i \in DOMAIN writes : writes[i].table = t}
<1>1. Follows(t) /\ DOMAIN writes = 1 .. Len(writes) /\ Len(writes) \in Nat
  BY DEF IInv, WritesTyped
<1>2. CASE pending = {}
  <2>1. mem[t] = store[t]
    BY <1>1, <1>2 DEF Follows
  <2> QED
    BY <1>2, <2>1 DEF Promised
<1>3. CASE pending # {}
  <2>1. PICK i \in pending : writes[i].value = store[t] /\ \A k \in pending : k <= i
    BY <1>1, <1>3 DEF Follows
  <2>2. \A k \in pending : (\A l \in pending : l <= k) => k = i
    BY <1>1, <2>1
  <2> DEFINE last == CHOOSE k \in pending : \A l \in pending : l <= k
  <2>3. last = i
    <3> HIDE DEF pending
    <3> QED
      BY <2>1, <2>2
  <2>4. Promised(t) = writes[last].value
    BY <1>3 DEF Promised
  <2> QED
    BY <2>1, <2>3, <2>4
<1> QED
  BY <1>2, <1>3

LEMMA LogsFromInv == IInv => FinishedMatchesHaveLogs
BY DEF IInv, MatchesOK, Recorded, FinishedMatchesHaveLogs

\* Once the writes under way are done, the database has the matches, bots and
\* maps of the store: in whatever order dispatches, updates (TableListener.write
\* of Database.ts) and synchronisations come, after any number of restarts.
THEOREM DatabaseFollows == RecordsAssumption /\ Spec => []DatabaseFollowsStore
BY FollowsFromInv, Invariance, PTL

\* A match that store, database or file has as finished has a log that can be
\* parsed (parseLog of matches.ts), also after a restart.
THEOREM FinishedHaveLogs == RecordsAssumption /\ Spec => []FinishedMatchesHaveLogs
BY LogsFromInv, Invariance, PTL
-----------------------------------------------------------------------------
(* What no step does *)

\* Every step of an app that runs either leaves the store alone or dispatches.
\* What it changes in the table of matches is an end, which it announces, or a
\* match that begins.
Changes(m) ==
    \/ store.matches[m] = "none" /\ store'.matches[m] = "playing"
    \/ /\ store.matches[m] = "playing"
       /\ store'.matches[m] \in {"finished", "error"}
       /\ store'.notifications \in {Append(store.notifications, <<type, m>>) :
                                      type \in {"Error", "Finished"}}

LEMMA StepChanges ==
  ASSUME IInv, Next, app = "up", app' = "up", NEW m \in Matches,
         store'.matches[m] # store.matches[m]
  PROVE  Changes(m)
<1>0. IsStore(store) /\ "matches" \in Tables /\ DOMAIN store = Tables
  BY DEF IInv, Typed, IsStore, Tables
<1>1. CASE Start \/ Quit
  BY <1>1 DEF Start, Quit
<1>2. CASE UpdateDatabase \/ WriteFile \/ \E k \in Matches : WriteLog(k)
  BY <1>2 DEF UpdateDatabase, WriteFile, WriteLog, dbVars
<1>3. CASE DbSync \/ ClearEmptyList
  BY <1>3 DEF DbSync, Dispatch, ClearEmptyList
<1>4. CASE RemoveNotification
  BY <1>0, <1>4 DEF RemoveNotification, Dispatch
<1>5. ASSUME NEW d \in Maps \union Bots, ImportDefault(d) \/ RemoveBot(d)
      PROVE  FALSE
  BY <1>0, <1>5 DEF ImportDefault, RemoveBot, Dispatch, FiledUnder
<1>6. ASSUME NEW k \in Matches, PlayMatch(k)
      PROVE  Changes(m)
  <2>1. store' = SaveMatch(store, k, "playing") /\ runner[k] = "none"
    BY <1>6 DEF PlayMatch, Dispatch
  <2>2. /\ SaveMatch(store, k, "playing").matches[k] = "playing"
        /\ \A l \in Matches : l # k =>
             SaveMatch(store, k, "playing").matches[l] = store.matches[l]
    BY <1>0, Saved
  <2>3. m = k /\ store'.matches[m] = "playing"
    BY <2>1, <2>2
  <2>4. store.matches[m] = "none"
    BY <2>1, <2>3 DEF IInv, MatchesOK, Recorded
  <2> QED
    BY <2>3, <2>4 DEF Changes
<1>7. ASSUME NEW k \in Matches, ServerFails(k)
      PROVE  Changes(m)
  <2> DEFINE noted == Notify(store, k, "Error")
  <2>1. store' = Errored(noted, k)
    BY <1>7 DEF ServerFails, Dispatch
  <2>2. /\ IsStore(noted) /\ noted.matches = store.matches
        /\ noted.notifications = Append(store.notifications, <<"Error", k>>)
    BY <1>0, Notified
  <2> HIDE DEF noted
  <2>3. /\ store'.notifications = noted.notifications
        /\ m = k /\ store.matches[m] = "playing" /\ store'.matches[m] = "error"
    BY <2>1, <2>2, Failure
  <2> QED
    BY <2>2, <2>3 DEF Changes
<1>8. ASSUME NEW k \in Matches, ServerExits(k)
      PROVE  Changes(m)
  <2> DEFINE noted == Notify(store, k, "Finished")
  <2>1. store' = Completed(noted, k)
    BY <1>8 DEF ServerExits, Dispatch
  <2>2. /\ IsStore(noted) /\ noted.matches = store.matches
        /\ noted.notifications = Append(store.notifications, <<"Finished", k>>)
    BY <1>0, Notified
  <2> HIDE DEF noted
  <2>3. /\ store'.notifications = noted.notifications
        /\ m = k /\ store.matches[m] = "playing" /\ store'.matches[m] = "finished"
    BY <2>1, <2>2, Completion
  <2> QED
    BY <2>2, <2>3 DEF Changes
<1>9. ASSUME NEW k \in Matches, ClientErrors(k)
      PROVE  Changes(m)
  <2> DEFINE failed == Errored(store, k)
  <2>1. store' = Notify(failed, k, "Error")
    BY <1>9 DEF ClientErrors, Dispatch
  <2>2. /\ IsStore(failed) /\ failed.notifications = store.notifications
        /\ \A l \in Matches : failed.matches[l] # store.matches[l] =>
             /\ l = k /\ store.matches[k] = "playing" /\ failed.matches[k] = "error"
    BY <1>0, Failure
  <2> HIDE DEF failed
  <2>3. /\ store'.notifications = Append(failed.notifications, <<"Error", k>>)
        /\ store'.matches = failed.matches
    BY <2>1, <2>2, Notified
  <2> QED
    BY <2>2, <2>3 DEF Changes
<1>10. ASSUME NEW k \in Matches, ClientExits(k)
       PROVE  Changes(m)
  <2> DEFINE completed == Completed(store, k)
  <2>1. /\ thrown' = CompletionThrows(store, k)
        /\ store' = IF thrown' = "nothing" THEN Notify(completed, k, "Finished") ELSE completed
    BY <1>10 DEF ClientExits, Dispatch, Announced
  <2>2. /\ IsStore(completed) /\ completed.notifications = store.notifications
        /\ \A l \in Matches : completed.matches[l] # store.matches[l] =>
             /\ l = k /\ store.matches[k] = "playing" /\ completed.matches[k] = "finished"
             /\ CompletionThrows(store, k) = "nothing"
    BY <1>0, Completion
  <2> HIDE DEF completed
  <2>3. /\ Notify(completed, k, "Finished").notifications
              = Append(completed.notifications, <<"Finished", k>>)
        /\ Notify(completed, k, "Finished").matches = completed.matches
    BY <2>2, Notified
  <2> QED
    BY <2>1, <2>2, <2>3 DEF Changes
<1> QED
  BY <1>1, <1>2, <1>3, <1>4, <1>5, <1>6, <1>7, <1>8, <1>9, <1>10 DEF Next

LEMMA NextOutcomes ==
  ASSUME IInv, Next
  PROVE  OutcomesAreFinal
BY StepChanges DEF OutcomesAreFinal, Changes

\* A match that errored or finished stays so: the exit of a server that failed,
\* which completes a match, changes nothing (completeMatch of matches.ts).
THEOREM OutcomesStay == RecordsAssumption /\ Spec => [][OutcomesAreFinal]_vars
<1>1. IInv /\ [Next]_vars => [OutcomesAreFinal]_vars
  BY NextOutcomes
<1> QED
  BY <1>1, Invariance, PTL DEF Spec

LEMMA NextEnds ==
  ASSUME IInv, Next
  PROVE  EndsAreAnnounced
<1> SUFFICES ASSUME app = "up", app' = "up", NEW m \in Matches,
                    store'.matches[m] # store.matches[m],
                    store'.matches[m] \in {"finished", "error"}
             PROVE  \E i \in Len(store.notifications) + 1 .. Len(store'.notifications) :
                      store'.notifications[i][2] = m
  BY DEF EndsAreAnnounced
<1>1. PICK type \in {"Error", "Finished"} :
         store'.notifications = Append(store.notifications, <<type, m>>)
  BY StepChanges DEF Changes
<1>2. store.notifications \in Seq(Notes)
  BY TableTypes DEF IInv, Typed
<1> DEFINE n == Len(store.notifications) + 1
<1>3. /\ n \in Nat /\ Len(store'.notifications) = n
      /\ store'.notifications[n] = <<type, m>>
  BY <1>1, <1>2
<1>4. n \in n .. n /\ store'.notifications[n][2] = m
  BY <1>3
<1> QED
  BY <1>3, <1>4

\* The step that ends a match adds a notification of that match.
THEOREM EndsAreNotified == RecordsAssumption /\ Spec => [][EndsAreAnnounced]_vars
<1>1. IInv /\ [Next]_vars => [EndsAreAnnounced]_vars
  BY NextEnds
<1> QED
  BY <1>1, Invariance, PTL DEF Spec

\* Where the writes under way change: they begin anew with the app, one is
\* done, or a dispatch adds to them.
LEMMA StepWrites ==
  ASSUME Next, app = "up", app' = "up"
  PROVE  \/ writes' = writes
         \/ writes # <<>> /\ writes' = Tail(writes)
         \/ Dispatch(store')
         \/ ClearEmptyList
<1>1. ASSUME NEW state, Dispatch(state) PROVE Dispatch(store')
  BY <1>1 DEF Dispatch
<1>2. CASE Start \/ Quit
  BY <1>2 DEF Start, Quit
<1>3. CASE UpdateDatabase \/ WriteFile \/ \E k \in Matches : WriteLog(k)
  BY <1>3 DEF UpdateDatabase, WriteFile, WriteLog, dbVars
<1>4. CASE DbSync \/ RemoveNotification
  BY <1>1, <1>4 DEF DbSync, RemoveNotification
<1>5. ASSUME NEW d \in Maps \union Bots, ImportDefault(d) \/ RemoveBot(d)
      PROVE  Dispatch(store')
  BY <1>1, <1>5 DEF ImportDefault, RemoveBot
<1>6. ASSUME NEW k \in Matches,
             PlayMatch(k) \/ ServerFails(k) \/ ServerExits(k) \/ ClientErrors(k) \/ ClientExits(k)
      PROVE  Dispatch(store')
  BY <1>1, <1>6 DEF PlayMatch, ServerFails, ServerExits, ClientErrors, ClientExits
<1> QED
  BY <1>2, <1>3, <1>4, <1>5, <1>6 DEF Next

LEMMA NextWrites ==
  ASSUME IInv, Next
  PROVE  OnlyChangesAreWritten
<1> SUFFICES ASSUME app = "up", app' = "up"
             PROVE  /\ syncs' < syncs => writes' = writes
                    /\ \A i \in Len(writes) + 1 .. Len(writes') :
                         \/ store'[writes'[i].table] # store[writes'[i].table]
                         \/ writes'[i].table = "notifications" /\ store.notifications = <<>>
  BY DEF OnlyChangesAreWritten
<1>1. IInv'
  BY NextInv
<1>2. /\ WritesTyped /\ seen = store /\ IsStore(store) /\ IsStore(store')
      /\ writes \in Seq(Writes)
  BY <1>1 DEF IInv, Typed, WritesTyped, IsStore, Values, Notes, Tables, Matches
<1>3. ASSUME syncs' < syncs PROVE writes' = writes
  <2>1. DbSync
    <3>1. syncs \in Nat
      BY DEF IInv, Typed
    <3>2. ~(Start \/ Quit) /\ (UpdateDatabase => syncs' = syncs + 1)
      BY DEF Start, Quit, UpdateDatabase
    <3>3. WriteFile \/ RemoveNotification \/ ClearEmptyList => syncs' = syncs
      BY DEF WriteFile, RemoveNotification, ClearEmptyList, dbVars
    <3>4. \A d \in Maps \union Bots : ImportDefault(d) \/ RemoveBot(d) => syncs' = syncs
      BY DEF ImportDefault, RemoveBot
    <3>5. \A m \in Matches :
             (\/ PlayMatch(m) \/ WriteLog(m) \/ ServerFails(m) \/ ServerExits(m)
              \/ ClientErrors(m) \/ ClientExits(m)) => syncs' = syncs
      BY DEF PlayMatch, WriteLog, ServerFails, ServerExits, ClientErrors, ClientExits, Ends, dbVars
    <3> HIDE DEF IInv
    <3>6. syncs' # syncs /\ syncs' # syncs + 1
      BY <1>3, <3>1
    <3> QED
      BY <3>2, <3>3, <3>4, <3>5, <3>6 DEF Next
  <2>2. store' = store /\ writes' = writes \o WritesFor(store)
    BY <2>1 DEF DbSync, Dispatch
  <2>3. WritesFor(store) = <<>>
    <3>1. /\ WritesFor(store) \in Seq(Writes)
          /\ \A i \in 1 .. Len(WritesFor(store)) : FALSE
      BY <1>2, WritesForFacts
    <3> QED
      BY <3>1
  <2> QED
    BY <1>2, <2>2, <2>3
<1> SUFFICES ASSUME NEW i \in Len(writes) + 1 .. Len(writes')
             PROVE  \/ store'[writes'[i].table] # store[writes'[i].table]
                    \/ writes'[i].table = "notifications" /\ store.notifications = <<>>
  BY <1>3
<1>4. CASE writes' = writes \/ (writes # <<>> /\ writes' = Tail(writes))
  <2>1. Len(writes) \in Nat /\ Len(writes') \in Nat /\ Len(writes') <= Len(writes)
    BY <1>2, <1>4
  <2> QED
    BY <2>1
<1>5. CASE Dispatch(store')
  <2> DEFINE state == store'
  <2>1. IsStore(state) /\ Dispatch(state)
    BY <1>2, <1>5
  <2>2. PICK t \in Tables : /\ state[t] # store[t]
                           /\ writes'[i] = [table |-> t, value |-> state[t]]
    <3> HIDE DEF state
    <3> QED
      BY <1>2, <2>1, Dispatched
  <2> QED
    BY <2>2
<1>6. CASE ClearEmptyList
  <2>1. /\ store.notifications = <<>>
        /\ writes' = Append(writes, [table |-> "notifications", value |-> <<>>])
    BY <1>6 DEF ClearEmptyList, Write, Accessor
  <2>2. /\ Len(writes') = Len(writes) + 1 /\ Len(writes) \in Nat
        /\ writes'[Len(writes) + 1] = [table |-> "notifications", value |-> <<>>]
    BY <1>2, <2>1
  <2>3. i = Len(writes) + 1
    BY <2>2
  <2> QED
    BY <2>1, <2>2, <2>3
<1> QED
  BY <1>4, <1>5, <1>6, StepWrites

\* No dispatch writes a table it did not change (oldValue of TableListener in
\* Database.ts), whatever was dispatched before it, but an empty list of
\* notifications that is cleared; a dbSync never writes.
THEOREM ChangesAreWritten == RecordsAssumption /\ Spec => [][OnlyChangesAreWritten]_vars
<1>1. IInv /\ [Next]_vars => [OnlyChangesAreWritten]_vars
  BY NextWrites DEF OnlyChangesAreWritten, vars, dbVars
<1> QED
  BY <1>1, Invariance, PTL DEF Spec

LEMMA NextBots ==
  ASSUME IInv, Next
  PROVE  RemovedBotsStayAway
<1> SUFFICES ASSUME NEW b \in Bots, app = "down", b \in toImport'
             PROVE  file.bots = {}
  BY DEF RemovedBotsStayAway
<1>1. toImport = {} /\ Maps \intersect Bots = {} /\ DOMAIN file = Tables
  BY DEF IInv, Typed, RecordsAssumption, IsStore
<1>2. CASE Start
  <2>1. b \in DefaultsFor(Imported(file))
    BY <1>2 DEF Start
  <2>2. Imported(file).bots = file.bots
    BY <1>1 DEF Imported, Tables
  <2> QED
    BY <1>1, <2>1, <2>2 DEF DefaultsFor
<1>3. CASE Quit \/ UpdateDatabase \/ DbSync \/ WriteFile \/ RemoveNotification \/ ClearEmptyList
  BY <1>1, <1>3 DEF Quit, UpdateDatabase, DbSync, WriteFile, RemoveNotification, ClearEmptyList
<1>4. ASSUME NEW d \in Maps \union Bots, ImportDefault(d) \/ RemoveBot(d)
      PROVE  FALSE
  BY <1>4 DEF ImportDefault, RemoveBot, Acts
<1>5. ASSUME NEW m \in Matches,
             \/ PlayMatch(m) \/ WriteLog(m) \/ ServerFails(m) \/ ServerExits(m)
             \/ ClientErrors(m) \/ ClientExits(m)
      PROVE  FALSE
  BY <1>5 DEF PlayMatch, WriteLog, ServerFails, ServerExits, ClientErrors, ClientExits,
              Acts, Ends, Alive
<1> QED
  BY <1>2, <1>3, <1>4, <1>5 DEF Next

\* The default bots are imported only by a start that finds no bot in the
\* database (populateBots of Setup.ts): those the user removed stay away.
THEOREM BotsStayRemoved == RecordsAssumption /\ Spec => [][RemovedBotsStayAway]_vars
<1>1. IInv /\ [Next]_vars => [RemovedBotsStayAway]_vars
  BY NextBots
<1> QED
  BY <1>1, Invariance, PTL DEF Spec
-----------------------------------------------------------------------------
(* The migration *)

\* The bots of the file that an older app left, as a v3 and as a v4 have them.
BotV3(uuid) ==
    [uuid |-> uuid, config |-> [name |-> Old!Name(uuid), command |-> <<"run", uuid>>]]
BotV4(uuid) ==
    [uuid |-> uuid, name |-> Old!Name(uuid), command |-> <<"run", uuid>>]

BotsV3 == {BotV3(bot.uuid) : bot \in written.bots}
BotsV4 == {BotV4(bot.uuid) : bot \in written.bots}

MatchV4 == IF written.match = NoMatch THEN NoMatch ELSE Old!NewMatch(written.match, BotsV4)

AllNamed == written.match # NoMatch =>
              ToSet(written.match.players) \subseteq {bot.uuid : bot \in written.bots}

\* A database that holds what was written, in any of the versions.
Holds(d) ==
    IF written.version = "v1"
    THEN \E v \in Old!Versions : d = [version |-> v, bots |-> {}, match |-> NoMatch]
    ELSE \/ written.version = "v2" /\ d = written
         \/ d = [version |-> "v3", bots |-> BotsV3, match |-> written.match]
         \/ d = [version |-> "v4", bots |-> BotsV4, match |-> MatchV4] /\ AllNamed

\* The inductive invariant: wherever the start is cut short, file and memory
\* hold what was written, the file in its version or in the last one, and the
\* store is given what the file has or what is on its way there.
MigrationInv ==
    /\ written \in Old!OldDatabases
    /\ phase \in {"off", "migrate", "import", "bound", "failed"}
    /\ phase # "bound" => imported = Old!Nothing
    /\ Holds(old_file) /\ Holds(db)
    /\ old_file = written \/ old_file.version = "v4"
    /\ phase = "migrate" => old_file = written
    /\ writing = {} \/ (writing = {db} /\ phase \in {"import", "bound"})
    /\ phase \in {"import", "bound"} =>
         db.version = "v4" /\ (old_file = db \/ (old_file = written /\ writing = {db}))
    /\ phase = "bound" => imported = [bots |-> db.bots, match |-> db.match]

LEMMA OldFacts ==
  ASSUME NEW d \in Old!OldDatabases
  PROVE  \/ d = [version |-> "v1", bots |-> {}, match |-> NoMatch]
         \/ /\ d = [version |-> d.version, bots |-> d.bots, match |-> d.match]
            /\ d.version \in {"v2", "v3"} /\ d.match \in Old!OldMatches \union {NoMatch}
            /\ \A bot \in d.bots :
                 /\ bot = [uuid |-> bot.uuid, config |-> Old!OldConfig(d.version, bot.uuid)]
                 /\ bot.uuid \in OldBots
<1>1. ASSUME NEW v \in {"v2", "v3"}, NEW known \in SUBSET OldBots,
             NEW m \in Old!OldMatches \union {NoMatch},
             d = [version |-> v, match |-> m,
                  bots |-> {[uuid |-> b, config |-> Old!OldConfig(v, b)] : b \in known}]
      PROVE  /\ d = [version |-> d.version, bots |-> d.bots, match |-> d.match]
             /\ d.version \in {"v2", "v3"} /\ d.match \in Old!OldMatches \union {NoMatch}
             /\ \A bot \in d.bots :
                  /\ bot = [uuid |-> bot.uuid, config |-> Old!OldConfig(d.version, bot.uuid)]
                  /\ bot.uuid \in OldBots
  BY <1>1
<1> QED
  BY <1>1 DEF Old!OldDatabases

LEMMA OldMatchFacts ==
  ASSUME NEW m \in Old!OldMatches
  PROVE  /\ m.players \in [1 .. 2 -> OldBots]
         /\ m.status \in {"playing", "finished", "error"}
BY DEF Old!OldMatches

LEMMA PairJoins ==
  ASSUME NEW a, NEW b
  PROVE  <<a>> \o <<b>> = <<a, b>>
<1> DEFINE S == {a, b}
           s == <<a>>
           t == <<b>>
<1>1. s \in Seq(S) /\ t \in Seq(S) /\ <<a, b>> \in Seq(S)
  OBVIOUS
<1>2. Len(s) = 1 /\ Len(t) = 1 /\ s[1] = a /\ t[1] = b
  OBVIOUS
<1> HIDE DEF s, t, S
<1>3. /\ s \o t \in Seq(S) /\ Len(s \o t) = 2
      /\ (s \o t)[1] = a /\ (s \o t)[2] = b
  <2>1. /\ s \o t \in Seq(S) /\ Len(s \o t) = Len(s) + Len(t)
        /\ \A i \in 1 .. Len(s) + Len(t) :
             (s \o t)[i] = IF i <= Len(s) THEN s[i] ELSE t[i - Len(s)]
    BY <1>1, ConcatProperties
  <2>2. 1 \in 1 .. 2 /\ 2 \in 1 .. 2 /\ 2 - 1 = 1
    OBVIOUS
  <2> QED
    BY <1>2, <2>1, <2>2
<1>4. \A i \in 1 .. Len(s \o t) : (s \o t)[i] = <<a, b>>[i]
  BY <1>3
<1>5. s \o t = <<a, b>>
  BY <1>1, <1>3, <1>4, SeqEqual
<1> QED
  BY <1>5 DEF s, t

LEMMA MigrationInit == Old!Init => MigrationInv
<1> SUFFICES ASSUME Old!Init PROVE MigrationInv
  OBVIOUS
<1>1. /\ written \in Old!OldDatabases /\ old_file = written /\ db = written
      /\ phase = "off" /\ imported = Old!Nothing /\ writing = {}
  BY DEF Old!Init
<1>2. Holds(written)
  <2>1. CASE written = [version |-> "v1", bots |-> {}, match |-> NoMatch]
    BY <2>1 DEF Holds, Old!Versions
  <2>2. CASE written.version = "v2"
    BY <2>2 DEF Holds
  <2>3. CASE written.version = "v3"
    <3>1. \A bot \in written.bots : bot = BotV3(bot.uuid)
      BY <1>1, <2>3, OldFacts DEF Old!OldConfig, BotV3
    <3>2. BotsV3 = written.bots
      BY <3>1 DEF BotsV3
    <3>3. written = [version |-> "v3", bots |-> BotsV3, match |-> written.match]
      BY <1>1, <2>3, <3>2, OldFacts
    <3> QED
      BY <2>3, <3>3 DEF Holds
  <2> QED
    BY <1>1, <2>1, <2>2, <2>3, OldFacts
<1>3. Holds(old_file) /\ Holds(db)
  BY <1>1, <1>2
<1> QED
  BY <1>1, <1>3 DEF MigrationInv

LEMMA UpgradeV1Holds ==
  ASSUME MigrationInv, db.version = "v1"
  PROVE  Holds(Old!UpgradeV1(db))
<1>1. written.version = "v1"
  BY DEF MigrationInv, Holds
<1> QED
  BY <1>1 DEF Holds, Old!UpgradeV1, Old!Versions

LEMMA UpgradeV2Holds ==
  ASSUME MigrationInv, db.version = "v2"
  PROVE  Holds(Old!UpgradeV2(db))
<1>1. CASE written.version = "v1"
  <2>1. db = [version |-> "v2", bots |-> {}, match |-> NoMatch]
    BY <1>1 DEF MigrationInv, Holds
  <2> DEFINE upgraded == {[bot EXCEPT !.config = Old!MigrateConfig(@)] : bot \in db.bots}
  <2>2. upgraded = {} /\ Old!UpgradeV2(db) = [db EXCEPT !.version = "v3", !.bots = upgraded]
    BY <2>1 DEF Old!UpgradeV2
  <2>3. Old!UpgradeV2(db) = [version |-> "v3", bots |-> {}, match |-> NoMatch]
    <3> HIDE DEF upgraded
    <3> QED
      BY <2>1, <2>2
  <2> QED
    BY <1>1, <2>3 DEF Holds, Old!Versions
<1>2. CASE written.version # "v1"
  <2>1. db = written /\ written.version = "v2"
    BY <1>2 DEF MigrationInv, Holds
  <2>2. /\ written = [version |-> "v2", bots |-> written.bots, match |-> written.match]
        /\ \A bot \in written.bots :
             bot = [uuid |-> bot.uuid, config |-> Old!OldConfig("v2", bot.uuid)]
    BY <2>1, OldFacts DEF MigrationInv
  <2>3. \A u : Old!OldConfig("v2", u) = [name |-> Old!Name(u), command |-> <<"run">>, args |-> <<u>>]
    BY DEF Old!OldConfig
  <2>4. \A bot \in written.bots :
           [bot EXCEPT !.config = Old!MigrateConfig(@)] = BotV3(bot.uuid)
    <3> TAKE bot \in written.bots
    <3>1. bot.config = [name |-> Old!Name(bot.uuid), command |-> <<"run">>, args |-> <<bot.uuid>>]
      BY <2>2, <2>3
    <3>2. Old!MigrateConfig(bot.config)
            = [name |-> Old!Name(bot.uuid), command |-> <<"run">> \o <<bot.uuid>>]
      BY <3>1 DEF Old!MigrateConfig
    <3>3. <<"run">> \o <<bot.uuid>> = <<"run", bot.uuid>>
      BY PairJoins
    <3>4. bot = [uuid |-> bot.uuid, config |-> bot.config]
      BY <2>2, <2>3
    <3> QED
      BY <3>2, <3>3, <3>4 DEF BotV3
  <2> DEFINE Up(bot) == [bot EXCEPT !.config = Old!MigrateConfig(@)]
             upgraded == {Up(bot) : bot \in written.bots}
  <2>5. upgraded = BotsV3
    <3>1. \A bot \in written.bots : Up(bot) = BotV3(bot.uuid)
      BY <2>4
    <3> HIDE DEF Up
    <3> QED
      BY <3>1 DEF BotsV3
  <2>6. Old!UpgradeV2(written)
          = [written EXCEPT !.version = "v3", !.bots = upgraded]
    BY DEF Old!UpgradeV2
  <2>7. Old!UpgradeV2(written) = [version |-> "v3", bots |-> BotsV3, match |-> written.match]
    <3> HIDE DEF upgraded
    <3> QED
      BY <2>2, <2>5, <2>6
  <2> QED
    BY <1>2, <2>1, <2>7 DEF Holds
<1> QED
  BY <1>1, <1>2

LEMMA UpgradeV3Holds ==
  ASSUME MigrationInv, db.version = "v3", Old!Nameable(db)
  PROVE  Holds(Old!UpgradeV3(db))
<1>1. CASE written.version = "v1"
  <2>1. db = [version |-> "v3", bots |-> {}, match |-> NoMatch]
    BY <1>1 DEF MigrationInv, Holds
  <2>2. Old!UpgradeV3(db) = [version |-> "v4", bots |-> {}, match |-> NoMatch]
    BY <2>1 DEF Old!UpgradeV3
  <2> QED
    BY <1>1, <2>2 DEF Holds, Old!Versions
<1>2. CASE written.version # "v1"
  <2>1. db = [version |-> "v3", bots |-> BotsV3, match |-> written.match]
    BY <1>2 DEF MigrationInv, Holds
  <2>2. {Old!NewBot(bot) : bot \in BotsV3} = BotsV4
    <3>1. \A u : Old!NewBot(BotV3(u)) = BotV4(u)
      BY DEF Old!NewBot, BotV3, BotV4
    <3> QED
      BY <3>1, Zenon DEF BotsV3, BotsV4
  <2>3. \A u : u \in {bot.uuid : bot \in BotsV3} => u \in {bot.uuid : bot \in written.bots}
    <3> SUFFICES ASSUME NEW bot \in BotsV3
                 PROVE  bot.uuid \in {b.uuid : b \in written.bots}
      OBVIOUS
    <3>1. PICK b \in written.bots : bot = BotV3(b.uuid)
      BY DEF BotsV3
    <3>2. bot.uuid = b.uuid
      BY <3>1 DEF BotV3
    <3> QED
      BY <3>2
  <2>4. AllNamed
    <3>1. db.match = written.match /\ db.bots = BotsV3
      BY <2>1
    <3>2. written.match # NoMatch =>
             ToSet(written.match.players) \subseteq {bot.uuid : bot \in BotsV3}
      BY <3>1, Zenon DEF Old!Nameable, Old!ToSet, ToSet
    <3> QED
      BY <2>3, <3>2, Zenon DEF AllNamed
  <2>5. Old!UpgradeV3(db) = [version |-> "v4", bots |-> BotsV4, match |-> MatchV4]
    BY <2>1, <2>2 DEF Old!UpgradeV3, MatchV4
  <2> QED
    BY <1>2, <2>4, <2>5 DEF Holds
<1> QED
  BY <1>1, <1>2

LEMMA MigrationNext == MigrationInv /\ (Old!Next \/ UNCHANGED migration) => MigrationInv'
<1> SUFFICES ASSUME MigrationInv, Old!Next \/ UNCHANGED migration
             PROVE  MigrationInv'
  OBVIOUS
<1>1. written' = written
  BY DEF migration, Old!Next, Old!Open, Old!Upgrade, Old!UpgradeThrows, Old!SaveMigrated,
         Old!WriteFile, Old!Import, Old!Kill
<1>2. /\ BotsV3' = BotsV3 /\ BotsV4' = BotsV4 /\ MatchV4' = MatchV4 /\ AllNamed' = AllNamed
  BY <1>1 DEF BotsV3, BotsV4, MatchV4, AllNamed
<1>3. /\ Holds(old_file') => Holds(old_file)'
      /\ Holds(db') => Holds(db)'
  BY <1>1, <1>2 DEF Holds
<1>4. CASE UNCHANGED migration
  BY <1>3, <1>4 DEF MigrationInv, migration
<1>5. CASE Old!Open
  BY <1>1, <1>3, <1>5 DEF MigrationInv, Old!Open
<1>6. CASE Old!Upgrade
  <2>1. Holds(Old!Upgraded)
    <3>1. db.version \in {"v1", "v2", "v3"}
      BY <1>6 DEF Old!Upgrade, MigrationInv, Holds, Old!Versions
    <3> QED
      BY <1>6, <3>1, UpgradeV1Holds, UpgradeV2Holds, UpgradeV3Holds DEF Old!Upgrade, Old!Upgraded
  <2> QED
    BY <1>1, <1>3, <1>6, <2>1 DEF MigrationInv, Old!Upgrade
<1>7. CASE Old!UpgradeThrows
  BY <1>1, <1>3, <1>7 DEF MigrationInv, Old!UpgradeThrows
<1>8. CASE Old!SaveMigrated
  <2>1. /\ phase = "migrate" /\ db.version = "v4" /\ writing' = {db} /\ phase' = "import"
        /\ old_file' = old_file /\ written' = written /\ db' = db /\ imported' = imported
    BY <1>8 DEF Old!SaveMigrated, Old!ToWrite
  <2>2. Holds(old_file)' /\ Holds(db)'
    BY <1>3, <2>1 DEF MigrationInv
  <2>3. old_file = written
    BY <2>1 DEF MigrationInv
  <2> QED
    BY <2>1, <2>2, <2>3 DEF MigrationInv
<1>9. CASE Old!WriteFile
  <2>1. writing = {db} /\ phase \in {"import", "bound"} /\ db.version = "v4"
    BY <1>9 DEF MigrationInv, Old!WriteFile
  <2>2. /\ old_file' = db /\ writing' = {}
        /\ written' = written /\ phase' = phase /\ db' = db /\ imported' = imported
    BY <1>9, <2>1 DEF Old!WriteFile
  <2>3. Holds(old_file)' /\ Holds(db)'
    BY <1>3, <2>2 DEF MigrationInv
  <2> QED
    BY <2>1, <2>2, <2>3 DEF MigrationInv
<1>10. CASE Old!Import
  BY <1>1, <1>3, <1>10 DEF MigrationInv, Old!Import
<1>11. CASE Old!Kill
  BY <1>1, <1>3, <1>11 DEF MigrationInv, Old!Kill
<1> QED
  BY <1>4, <1>5, <1>6, <1>7, <1>8, <1>9, <1>10, <1>11 DEF Old!Next

LEMMA NamesFound ==
  ASSUME NEW bots4, \A bot \in bots4 : bot.name = Old!Name(bot.uuid),
         NEW uuid \in {bot.uuid : bot \in bots4}
  PROVE  Old!BotSlot(uuid, bots4)
           = [botId |-> uuid, connected |-> TRUE, name |-> Old!Name(uuid)]
<1>1. PICK bot \in bots4 : bot.uuid = uuid
  OBVIOUS
<1>2. (CHOOSE b \in bots4 : b.uuid = uuid).name = Old!Name(uuid)
  BY <1>1
<1> QED
  BY <1>2 DEF Old!BotSlot

\* The winners of a migrated match are the places at which they come first.
LEMMA PlacesOfWinners ==
  ASSUME NEW m \in Old!OldMatches, NEW bots4
  PROVE  Old!NewMatch(m, bots4).winners =
           {i - 1 : i \in {j \in DOMAIN m.players :
                            /\ m.players[j] \in m.winners
                            /\ \A k \in 1 .. j - 1 : m.players[k] # m.players[j]}}
<1> DEFINE firsts == {j \in DOMAIN m.players :
                        /\ m.players[j] \in m.winners
                        /\ \A k \in 1 .. j - 1 : m.players[k] # m.players[j]}
           Index(w) == Old!IndexOf(m.players, w)
<1>1. /\ m.players \in [1 .. 2 -> OldBots] /\ DOMAIN m.players = 1 .. 2 /\ Len(m.players) = 2
      /\ \A w \in m.winners : \E i \in 1 .. 2 : m.players[i] = w
  <2>1. m.players \in [1 .. 2 -> OldBots] /\ m.winners \subseteq Old!ToSet(m.players)
    BY DEF Old!OldMatches
  <2>2. DOMAIN m.players = 1 .. 2 /\ Len(m.players) = 2
    BY <2>1
  <2> QED
    BY <2>1, <2>2 DEF Old!ToSet
<1>2. \A j \in firsts : Index(m.players[j]) = j - 1
  <2> TAKE j \in firsts
  <2> DEFINE I == {i \in 1 .. Len(m.players) : m.players[i] = m.players[j]}
  <2>1. j \in I /\ j \in Nat /\ I # {} /\ \A i \in I : j <= i
    BY <1>1
  <2>2. Old!Min(I) = j
    <3>1. \A x \in I : (\A y \in I : x <= y) => x = j
      BY <2>1
    <3> HIDE DEF I
    <3> QED
      BY <2>1, <3>1 DEF Old!Min
  <2> QED
    BY <2>1, <2>2 DEF Old!IndexOf, Old!SelectInSeq
<1>3. \A w \in m.winners : \E j \in firsts : m.players[j] = w
  <2> TAKE w \in m.winners
  <2>1. CASE m.players[1] = w
    BY <1>1, <2>1
  <2>2. CASE m.players[1] # w
    BY <1>1, <2>2
  <2> QED
    BY <2>1, <2>2
<1>4. \A j \in firsts : m.players[j] \in m.winners
  OBVIOUS
<1>5. Old!NewMatch(m, bots4).winners = {Index(w) : w \in m.winners}
  BY DEF Old!NewMatch
<1> HIDE DEF firsts, Index
<1>6. {Index(w) : w \in m.winners} = {j - 1 : j \in firsts}
  <2>1. ASSUME NEW w \in m.winners PROVE Index(w) \in {j - 1 : j \in firsts}
    BY <1>2, <1>3
  <2>2. ASSUME NEW j \in firsts PROVE j - 1 \in {Index(w) : w \in m.winners}
    BY <1>2, <1>4
  <2> QED
    BY <2>1, <2>2
<1> QED
  BY <1>5, <1>6 DEF firsts

\* A migrated match has its players in their order, and is no NoMatch.
LEMMA MigratedMatch ==
  ASSUME NEW m \in Old!OldMatches, NEW bots4,
         \A bot \in bots4 : bot.name = Old!Name(bot.uuid),
         ToSet(m.players) \subseteq {bot.uuid : bot \in bots4}
  PROVE  /\ Old!NewMatch(m, bots4) # NoMatch
         /\ \A i \in DOMAIN m.players :
              /\ Old!NewMatch(m, bots4).players[i].botId = m.players[i]
              /\ Old!NewMatch(m, bots4).players[i].name = Old!Name(m.players[i])
         /\ Old!NewMatch(m, bots4).status = IF m.status = "finished" THEN "finished" ELSE "error"
         /\ Old!NewMatch(m, bots4).score = m.score
<1> DEFINE everybody == {[uuid |-> b, name |-> Old!Name(b)] : b \in OldBots}
<1>1. m.players \in [1 .. 2 -> OldBots] /\ m.status \in {"playing", "finished", "error"}
  BY OldMatchFacts
<1>2. \A i \in DOMAIN m.players :
         /\ m.players[i] \in {bot.uuid : bot \in bots4}
         /\ m.players[i] \in {bot.uuid : bot \in everybody}
  <2>1. \A i \in DOMAIN m.players : m.players[i] \in ToSet(m.players)
    BY <1>1 DEF ToSet
  <2>2. \A u \in OldBots : u \in {bot.uuid : bot \in everybody}
    <3> TAKE u \in OldBots
    <3>1. [uuid |-> u, name |-> Old!Name(u)] \in everybody
      OBVIOUS
    <3> QED
      BY <3>1
  <2> HIDE DEF everybody
  <2> QED
    BY <1>1, <2>1, <2>2
<1>3. \A bot \in everybody : bot.name = Old!Name(bot.uuid)
  OBVIOUS
<1> HIDE DEF everybody
<1>4. \A i \in DOMAIN m.players :
         /\ Old!BotSlot(m.players[i], bots4)
              = [botId |-> m.players[i], connected |-> TRUE, name |-> Old!Name(m.players[i])]
         /\ Old!BotSlot(m.players[i], everybody) = Old!BotSlot(m.players[i], bots4)
  BY <1>2, <1>3, NamesFound
<1>5. Old!NewMatch(m, bots4) = Old!NewMatch(m, everybody)
  BY <1>4 DEF Old!NewMatch
<1>6. Old!NewMatch(m, everybody) # NoMatch
  BY AppAssumption DEF AppAssumption, Old!MigrationAssumption, everybody
<1>7. /\ \A i \in DOMAIN m.players :
             Old!NewMatch(m, bots4).players[i] = Old!BotSlot(m.players[i], bots4)
      /\ Old!NewMatch(m, bots4).status = Old!NewStatus(m.status)
      /\ Old!NewMatch(m, bots4).score = m.score
  BY DEF Old!NewMatch
<1>8. Old!NewStatus(m.status) = IF m.status = "finished" THEN "finished" ELSE "error"
  BY <1>1 DEF Old!NewStatus
<1>9. \A i \in DOMAIN m.players :
         /\ Old!BotSlot(m.players[i], bots4).botId = m.players[i]
         /\ Old!BotSlot(m.players[i], bots4).name = Old!Name(m.players[i])
  <2> TAKE i \in DOMAIN m.players
  <2>1. Old!BotSlot(m.players[i], bots4)
          = [botId |-> m.players[i], connected |-> TRUE, name |-> Old!Name(m.players[i])]
    BY <1>4
  <2> QED
    BY <2>1
<1>10. Old!NewMatch(m, bots4) # NoMatch
  BY <1>5, <1>6
<1> QED
  BY <1>7, <1>8, <1>9, <1>10, Zenon

LEMMA MigrationTyped == MigrationInv => Old!TypeOK
<1> SUFFICES ASSUME MigrationInv PROVE Old!TypeOK
  OBVIOUS
<1>1. ASSUME NEW d, Holds(d)
      PROVE  d.version \in Old!Versions
  BY <1>1 DEF Holds, Old!Versions
<1>2. CASE phase # "bound"
  BY <1>1, <1>2 DEF MigrationInv, Old!TypeOK, Old!Nothing
<1>3. CASE phase = "bound"
  <2>1. /\ imported.bots = db.bots /\ imported.match = db.match
        /\ Holds(db) /\ db.version = "v4" /\ written \in Old!OldDatabases
    BY <1>3 DEF MigrationInv
  <2>2. \/ db.bots = {} /\ db.match = NoMatch
        \/ db.bots = BotsV4 /\ db.match = MatchV4 /\ AllNamed /\ written.version \in {"v2", "v3"}
    BY <2>1, OldFacts DEF Holds
  <2>3. \A bot \in BotsV4 : bot.uuid \in OldBots \/ written.version = "v1"
    BY <2>1, OldFacts DEF BotsV4, BotV4
  <2>4. ASSUME db.match = MatchV4, written.version \in {"v2", "v3"}, db.match # NoMatch
        PROVE  db.match.status \in {"finished", "error"}
    <3>1. written.match \in Old!OldMatches /\ db.match = Old!NewMatch(written.match, BotsV4)
      BY <2>1, <2>4, OldFacts DEF MatchV4
    <3>2. db.match.status = Old!NewStatus(written.match.status)
      BY <3>1 DEF Old!NewMatch
    <3>3. written.match.status \in {"playing", "finished", "error"}
      BY <3>1, OldMatchFacts
    <3> QED
      BY <3>2, <3>3 DEF Old!NewStatus
  <2> QED
    BY <1>1, <1>3, <2>1, <2>2, <2>3, <2>4 DEF MigrationInv, Old!TypeOK
<1> QED
  BY <1>2, <1>3

LEMMA MigrationKeeps == MigrationInv => Old!NothingIsLost /\ Old!FileIsOldOrNew
<1> SUFFICES ASSUME MigrationInv PROVE Old!NothingIsLost /\ Old!FileIsOldOrNew
  OBVIOUS
<1>1. Old!FileIsOldOrNew
  BY DEF MigrationInv, Old!FileIsOldOrNew
<1>2. ASSUME phase = "bound", written.version = "v1"
      PROVE  written.match = NoMatch
  BY <1>2, OldFacts DEF MigrationInv
<1>3. ASSUME phase = "bound", written.version # "v1"
      PROVE  /\ imported.bots = BotsV4 /\ imported.match = MatchV4 /\ AllNamed
             /\ written.match \in Old!OldMatches \union {NoMatch}
  <2>1. db.version = "v4" /\ written.version \in {"v2", "v3"}
        /\ written.match \in Old!OldMatches \union {NoMatch}
    BY <1>3, OldFacts DEF MigrationInv
  <2>2. db = [version |-> "v4", bots |-> BotsV4, match |-> MatchV4] /\ AllNamed
    BY <1>3, <2>1 DEF MigrationInv, Holds
  <2> QED
    BY <1>3, <2>1, <2>2 DEF MigrationInv
<1>4. ASSUME phase = "bound", written.version # "v1", written.match # NoMatch
      PROVE  /\ imported.match # NoMatch
             /\ \A i \in DOMAIN written.match.players :
                  /\ imported.match.players[i].botId = written.match.players[i]
                  /\ imported.match.players[i].name = Old!Name(written.match.players[i])
             /\ imported.match.status =
                  IF written.match.status = "finished" THEN "finished" ELSE "error"
             /\ imported.match.score = written.match.score
             /\ imported.match.winners =
                  {i - 1 : i \in {j \in DOMAIN written.match.players :
                     /\ written.match.players[j] \in written.match.winners
                     /\ \A k \in 1 .. j - 1 : written.match.players[k] # written.match.players[j]}}
  <2>1. /\ \A bot \in BotsV4 : bot.name = Old!Name(bot.uuid)
        /\ \A u : u \in {bot.uuid : bot \in written.bots} => u \in {bot.uuid : bot \in BotsV4}
    <3>1. \A u : BotV4(u).uuid = u /\ BotV4(u).name = Old!Name(u)
      BY DEF BotV4
    <3> QED
      BY <3>1, Zenon DEF BotsV4
  <2>2. ToSet(written.match.players) \subseteq {bot.uuid : bot \in BotsV4}
    BY <1>3, <1>4, <2>1 DEF AllNamed
  <2>3. imported.match = Old!NewMatch(written.match, BotsV4) /\ written.match \in Old!OldMatches
    BY <1>3, <1>4 DEF MatchV4
  <2> HIDE DEF BotsV4
  <2> QED
    BY <2>1, <2>2, <2>3, MigratedMatch, PlacesOfWinners
<1>5. Old!NothingIsLost
  BY <1>2, <1>3, <1>4 DEF Old!NothingIsLost, BotsV4, BotV4, MatchV4
<1> QED
  BY <1>1, <1>5
-----------------------------------------------------------------------------
(* The view of a match *)

Shown(m) == IF logs[m] = NoLog THEN view_onDisk[m] ELSE logs[m]

\* What the view has of the match it shows: nothing only where nothing will be
\* added, and else its log as far as it is.
InView ==
    IF matchLog = NoLog
    THEN selected \notin live /\ logs[selected] = NoLog
    ELSE /\ matchLog = View!Entries(selected, 0, Shown(selected))
         /\ logs[selected] # NoLog => logPos = logs[selected]
         /\ logs[selected] = NoLog => selected \notin live

\* A file is written from the log in the store, so a match that runs without a
\* log has nothing in its file.
ViewInv ==
    /\ status \in [View!Matches -> {"none", "playing", "finished", "error"}]
    /\ live \subseteq View!Matches
    /\ DOMAIN logs = View!Matches
    /\ \A m \in View!Matches : logs[m] = NoLog \/ logs[m] \in 0 .. MaxShown
    /\ view_onDisk \in [View!Matches -> 0 .. MaxShown]
    /\ view_page \in {"away", "open", "crashed"}
    /\ selected \in View!Matches \union {NoMatch}
    /\ logPos \in 0 .. MaxShown /\ error \in BOOLEAN
    /\ \A m \in View!Matches :
         /\ status[m] = "none" => logs[m] = NoLog /\ m \notin live /\ view_onDisk[m] = 0
         /\ m \in live /\ logs[m] = NoLog => view_onDisk[m] = 0
    /\ selected # NoMatch => status[selected] # "none"
    /\ view_page = "open" /\ selected # NoMatch => InView

LEMMA ViewAssumed ==
  /\ NoMatch \notin View!Matches /\ MaxShown \in Nat \ {0}
  /\ NoLog \notin Nat /\ NoLog # Throws
  /\ \A m \in View!Matches, size \in 0 .. MaxShown :
       View!Entries(m, 0, size) \notin {NoLog, Throws}
BY AppAssumption DEF AppAssumption, View!ViewAssumption

LEMMA ViewInit == View!Init => ViewInv
<1> SUFFICES ASSUME View!Init PROVE ViewInv
  OBVIOUS
<1>1. /\ status \in [View!Matches -> {"none", "playing", "finished", "error"}]
      /\ view_onDisk \in [View!Matches -> 0 .. MaxShown]
      /\ 0 \in 0 .. MaxShown
  BY ViewAssumed DEF View!Init
<1>2. /\ DOMAIN logs = View!Matches /\ live = {}
      /\ \A m \in View!Matches : logs[m] = NoLog /\ view_onDisk[m] = 0
  BY DEF View!Init
<1> QED
  BY <1>1, <1>2 DEF View!Init, ViewInv

LEMMA ViewTyped == ViewInv => View!TypeOK
BY DEF ViewInv, View!TypeOK

LEMMA ViewShows == ViewInv => View!ShowsTheWholeLog
BY DEF ViewInv, InView, Shown, View!ShowsTheWholeLog

LEMMA EntriesJoin ==
  ASSUME NEW m, NEW a \in Nat, NEW b \in Nat, a <= b
  PROVE  /\ View!Entries(m, 0, a) \o View!Entries(m, a, b) = View!Entries(m, 0, b)
         /\ (View!Entries(m, a, b) = <<>>) <=> (a = b)
<1> DEFINE e(k) == <<m, k>>
           S == {e(k) : k \in Nat}
           x == View!Entries(m, 0, a)
           y == View!Entries(m, a, b)
           z == View!Entries(m, 0, b)
<1>1. /\ x \in Seq(S) /\ Len(x) = a
      /\ \A i \in 1 .. a : x[i] = e(i)
  BY DEF View!Entries
<1>2. /\ y \in Seq(S) /\ Len(y) = b - a
      /\ \A i \in 1 .. b - a : y[i] = e(a + i)
  BY DEF View!Entries
<1>3. /\ z \in Seq(S) /\ Len(z) = b
      /\ \A i \in 1 .. b : z[i] = e(i)
  BY DEF View!Entries
<1> HIDE DEF e, S, x, y, z
<1>4. x \o y \in Seq(S) /\ Len(x \o y) = b
  BY <1>1, <1>2
<1>5. ASSUME NEW i \in 1 .. b PROVE (x \o y)[i] = z[i]
  <2>1. (x \o y)[i] = IF i <= Len(x) THEN x[i] ELSE y[i - Len(x)]
    BY <1>1, <1>2
  <2> QED
    BY <1>1, <1>2, <1>3, <2>1
<1>6. x \o y = z
  BY <1>3, <1>4, <1>5, SeqEqual
<1>7. y = <<>> <=> a = b
  BY <1>2
<1> QED
  BY <1>6, <1>7 DEF x, y, z

\* What componentWillReceiveProps does for a match with this log: it throws on
\* an empty file only, and else has the whole log.
LEMMA Receives ==
  ASSUME ViewInv, NEW m \in View!Matches, NEW log, log = NoLog \/ log \in 0 .. MaxShown,
         View!Receive(m, log),
         selected = m => /\ log # NoLog /\ logPos <= log
                         /\ matchLog = View!Entries(m, 0, logPos)
  PROVE  /\ selected' = m
         /\ \/ /\ view_page' = "crashed" /\ UNCHANGED <<matchLog, logPos, error>>
               /\ log = NoLog /\ view_onDisk[m] = 0
            \/ /\ UNCHANGED <<view_page, error>>
               /\ log # NoLog => logPos' = log /\ matchLog' = View!Entries(m, 0, log)
               /\ log = NoLog => logPos' = logPos /\ matchLog' = View!Entries(m, 0, view_onDisk[m])
<1>0. m # NoMatch /\ view_onDisk[m] \in 0 .. MaxShown /\ logPos \in 0 .. MaxShown
  BY ViewAssumed DEF ViewInv
<1>1. CASE log = NoLog
  <2>1. View!Received(m, log) = IF view_onDisk[m] = 0 THEN Throws
                                ELSE View!Entries(m, 0, view_onDisk[m])
    BY <1>0, <1>1 DEF View!Received, View!Parsed
  <2>2. View!Entries(m, 0, view_onDisk[m]) # Throws
    BY <1>0, ViewAssumed
  <2> QED
    BY <1>0, <1>1, <2>1, <2>2 DEF View!Receive
<1>2. CASE log # NoLog
  <2> DEFINE from == View!Consumed(m)
             base == View!Base(m)
             new  == View!Entries(m, from, log)
  <2>0. log \in 0 .. MaxShown /\ log \in Nat
    BY <1>2, ViewAssumed
  <2>1. from \in Nat /\ from <= log /\ from \in 0 .. MaxShown /\ base = View!Entries(m, 0, from)
    <3>1. View!Entries(m, 0, 0) = <<>>
      BY DEF View!Entries
    <3> QED
      BY <1>0, <2>0, <3>1, ViewAssumed DEF View!Consumed, View!Base
  <2>2. base # NoLog /\ View!Entries(m, 0, log) # Throws
    BY <2>0, <2>1, ViewAssumed
  <2>3. View!Received(m, log) = View!Added(base, new)
    BY <1>0, <1>2 DEF View!Received
  <2>4. base \o new = View!Entries(m, 0, log) /\ (new = <<>> => base = View!Entries(m, 0, log))
    <3>1. /\ View!Entries(m, 0, from) \o View!Entries(m, from, log) = View!Entries(m, 0, log)
          /\ (View!Entries(m, from, log) = <<>>) <=> (from = log)
      <4> HIDE DEF from
      <4> QED BY <2>0, <2>1, EntriesJoin
    <3>2. base \o new = View!Entries(m, 0, log)
      BY <2>1, <3>1
    <3>3. new = <<>> => base = View!Entries(m, 0, log)
      <4>1. new = <<>> => from = log BY <3>1
      <4> HIDE DEF from, base, new
      <4> QED BY <2>1, <4>1
    <3> QED
      BY <3>2, <3>3
  <2> HIDE DEF from, base, new
  <2>5. View!Added(base, new) = View!Entries(m, 0, log)
    BY <2>2, <2>4 DEF View!Added
  <2> QED
    BY <1>0, <1>2, <2>2, <2>3, <2>5 DEF View!Receive
<1> QED
  BY <1>1, <1>2

\* A running match that is shown has a log in the store, all of it in the view.
LEMMA InViewLive ==
  ASSUME ViewInv, NEW m \in live, view_page = "open", selected = m
  PROVE  /\ m \in View!Matches /\ logs[m] # NoLog /\ logPos = logs[m]
         /\ matchLog = View!Entries(m, 0, logs[m])
<1>1. m \in View!Matches /\ selected # NoMatch
  BY ViewAssumed DEF ViewInv
<1> QED
  BY <1>1 DEF ViewInv, InView, Shown

ViewKept ==
  /\ ViewInv'
  /\ view_page = "open" /\ view_page' = "crashed" =>
       logs'[selected'] = NoLog /\ view_onDisk[selected'] = 0

LEMMA ViewMoves ==
  ASSUME ViewInv, View!OpenPage \/ View!Leave \/ View!Reload \/ View!ViewerCrashes
  PROVE  ViewKept
<1>0. NoLog # Throws /\ 0 \in 0 .. MaxShown /\ FALSE \in BOOLEAN
  BY ViewAssumed
<1>1. ASSUME View!OpenPage PROVE ViewKept
  <2>1. View!Received(NoMatch, NoLog) = NoLog
    BY DEF View!Received
  <2>2. /\ UNCHANGED <<status, live, logs, view_onDisk>>
        /\ view_page' = "open" /\ selected' = NoMatch
        /\ logPos' = 0 \/ logPos' = logPos
        /\ error' = FALSE \/ error' = error
    BY <1>0, <1>1, <2>1 DEF View!OpenPage, View!Mount, View!Receive, View!storeVars
  <2>3. error' \in BOOLEAN
    BY <1>0, <2>2, Zenon DEF ViewInv
  <2> QED
    BY <1>0, <2>2, <2>3 DEF ViewKept, ViewInv
<1>2. ASSUME View!Leave PROVE ViewKept
  <2>1. /\ UNCHANGED <<status, live, logs, view_onDisk>>
        /\ view_page' = "away" /\ selected' = NoMatch /\ logPos' = 0 /\ error' = FALSE
    BY <1>2 DEF View!Leave, View!storeVars
  <2>2. error' \in BOOLEAN
    BY <1>0, <2>1, Zenon
  <2> QED
    BY <1>0, <2>1, <2>2 DEF ViewKept, ViewInv
<1>3. ASSUME View!Reload PROVE ViewKept
  <2>1. /\ view_page' = "open" /\ selected' = selected /\ matchLog' = NoLog
        /\ logPos' = 0 /\ error' = FALSE /\ live' = {} /\ UNCHANGED <<status, view_onDisk>>
        /\ logs' = [m \in View!Matches |-> NoLog]
    BY <1>3 DEF View!Reload, View!Mount
  <2>2. selected # NoMatch => selected \in View!Matches /\ logs'[selected] = NoLog
    BY <2>1 DEF ViewInv
  <2>3. selected' # NoMatch => InView'
    BY <2>1, <2>2 DEF InView
  <2>4. error' \in BOOLEAN
    BY <1>0, <2>1, Zenon
  <2>5. live' \subseteq View!Matches /\ DOMAIN logs' = View!Matches
        /\ \A m \in View!Matches : logs'[m] = NoLog /\ m \notin live'
    BY <2>1
  <2> QED
    BY <1>0, <2>1, <2>3, <2>4, <2>5 DEF ViewKept, ViewInv
<1>4. ASSUME View!ViewerCrashes PROVE ViewKept
  <2>1. UNCHANGED <<status, live, logs, view_onDisk, view_page, selected, matchLog, logPos>>
        /\ error' = TRUE
    BY <1>4 DEF View!ViewerCrashes, View!storeVars
  <2> QED
    BY <2>1 DEF ViewKept, ViewInv, InView, Shown
<1> QED
  BY <1>1, <1>2, <1>3, <1>4

LEMMA ViewSelects ==
  ASSUME ViewInv, NEW m \in View!Matches, View!Select(m)
  PROVE  ViewKept
<1>1. /\ view_page = "open" /\ m # selected /\ status[m] # "none"
      /\ View!Receive(m, logs[m])
      /\ UNCHANGED <<status, live, logs, view_onDisk>>
  BY DEF View!Select, View!storeVars
<1>2. logs[m] = NoLog \/ logs[m] \in 0 .. MaxShown
  BY DEF ViewInv
<1>3. /\ selected' = m
      /\ \/ /\ view_page' = "crashed" /\ UNCHANGED <<matchLog, logPos, error>>
            /\ logs[m] = NoLog /\ view_onDisk[m] = 0
         \/ /\ UNCHANGED <<view_page, error>>
            /\ logs[m] # NoLog => logPos' = logs[m] /\ matchLog' = View!Entries(m, 0, logs[m])
            /\ logs[m] = NoLog => logPos' = logPos /\ matchLog' = View!Entries(m, 0, view_onDisk[m])
  BY <1>1, <1>2, Receives
<1>4. view_page' = "open" => matchLog' = View!Entries(m, 0, Shown(m)) /\ matchLog' # NoLog
  <2>1. Shown(m) \in 0 .. MaxShown
    BY <1>2 DEF Shown, ViewInv
  <2>2. View!Entries(m, 0, Shown(m)) # NoLog
    BY <2>1, ViewAssumed
  <2> QED
    BY <1>1, <1>3, <2>2 DEF Shown
<1>5. view_page' = "open" /\ logs[m] = NoLog => m \notin live
  <2> SUFFICES ASSUME view_page' = "open", logs[m] = NoLog, m \in live PROVE FALSE
    OBVIOUS
  <2>1. view_onDisk[m] = 0
    BY DEF ViewInv
  <2>2. View!Received(m, NoLog) = Throws
    BY <2>1, ViewAssumed DEF View!Received, View!Parsed
  <2> QED
    BY <1>1, <2>2 DEF View!Receive
<1>6. view_page' = "open" => InView'
  BY <1>1, <1>3, <1>4, <1>5 DEF InView, Shown
<1>7. m # NoMatch /\ logPos' \in 0 .. MaxShown /\ view_page' \in {"away", "open", "crashed"} /\ error' \in BOOLEAN
  BY <1>2, <1>3, ViewAssumed DEF ViewInv
<1> QED
  BY <1>1, <1>3, <1>6, <1>7 DEF ViewKept, ViewInv

LEMMA ViewPlays ==
  ASSUME ViewInv, NEW m \in View!Matches, View!Play(m)
  PROVE  ViewKept
<1>1. /\ status[m] = "none" /\ status' = [status EXCEPT ![m] = "playing"]
      /\ live' = live \union {m}
      /\ logs' = IF m \in Joined THEN [logs EXCEPT ![m] = 0] ELSE logs
      /\ UNCHANGED <<view_onDisk, view_page, selected, matchLog, logPos, error>>
  BY DEF View!Play, View!viewVars
<1>2. /\ m # selected
      /\ logs[m] = NoLog /\ view_onDisk[m] = 0 /\ MaxShown \in Nat
  BY <1>1, ViewAssumed DEF ViewInv
<1>3. /\ status' \in [View!Matches -> {"none", "playing", "finished", "error"}]
      /\ \A k \in View!Matches : k # m => status'[k] = status[k] /\ logs'[k] = logs[k]
      /\ status'[m] = "playing" /\ DOMAIN logs' = View!Matches
      /\ logs'[m] = NoLog \/ logs'[m] = 0
  BY <1>1, <1>2 DEF ViewInv
<1>4. selected # NoMatch => logs'[selected] = logs[selected] /\ selected \in View!Matches /\ status'[selected] # "none"
  BY <1>2, <1>3 DEF ViewInv
<1>5. view_page = "open" /\ selected # NoMatch => InView'
  BY <1>1, <1>2, <1>4 DEF ViewInv, InView, Shown
<1> QED
  BY <1>1, <1>2, <1>3, <1>4, <1>5 DEF ViewKept, ViewInv

LEMMA ViewLogs ==
  ASSUME ViewInv, NEW m \in View!Matches, View!LogEntry(m)
  PROVE  ViewKept
<1>1. /\ m \in live /\ (logs[m] # NoLog => logs[m] < MaxShown)
      /\ logs' = [logs EXCEPT ![m] = View!Size(logs[m])]
      /\ View!Hears(m, logs'[m])
      /\ UNCHANGED <<status, live, view_onDisk>>
  BY DEF View!LogEntry
<1>2. /\ DOMAIN logs' = View!Matches /\ logs'[m] \in 0 .. MaxShown /\ logs'[m] # NoLog
      /\ \A k \in View!Matches : k # m => logs'[k] = logs[k]
      /\ logs[m] # NoLog => logs'[m] = logs[m] + 1
  BY <1>1, ViewAssumed DEF ViewInv, View!Size
<1>3. /\ \A k \in View!Matches : logs'[k] = NoLog \/ logs'[k] \in 0 .. MaxShown
      /\ status[m] # "none"
  BY <1>1, <1>2 DEF ViewInv
<1>4. ASSUME view_page = "open", selected = m PROVE ViewKept
  <2>1. m # NoMatch /\ logs[m] # NoLog /\ logPos = logs[m] /\ matchLog = View!Entries(m, 0, logs[m])
    BY <1>1, <1>4, InViewLive, ViewAssumed
  <2>2. View!Receive(m, logs'[m]) /\ logPos <= logs'[m]
    BY <1>1, <1>2, <1>4, <2>1 DEF View!Hears, ViewInv
  <2>3. /\ selected' = m /\ UNCHANGED <<view_page, error>>
        /\ logPos' = logs'[m] /\ matchLog' = View!Entries(m, 0, logs'[m])
    <3> DEFINE log == logs'[m]
    <3>1. log \in 0 .. MaxShown /\ log # NoLog /\ View!Receive(m, log) /\ logPos <= log
      BY <1>2, <2>2
    <3> HIDE DEF log
    <3>2. /\ selected' = m /\ UNCHANGED <<view_page, error>>
          /\ logPos' = log /\ matchLog' = View!Entries(m, 0, log)
      BY <2>1, <3>1, Receives
    <3> QED BY <3>2 DEF log
  <2>4. matchLog' # NoLog
    BY <1>2, <2>3, ViewAssumed
  <2>5. InView'
    BY <1>2, <2>3, <2>4 DEF InView, Shown
  <2> QED
    BY <1>1, <1>2, <1>3, <1>4, <2>3, <2>5 DEF ViewKept, ViewInv
<1>5. ASSUME ~(view_page = "open" /\ selected = m) PROVE ViewKept
  <2>1. UNCHANGED <<view_page, selected, matchLog, logPos, error>>
    BY <1>1, <1>5 DEF View!Hears, View!viewVars
  <2>2. view_page = "open" /\ selected # NoMatch => InView'
    <3> SUFFICES ASSUME view_page = "open", selected # NoMatch PROVE InView'
      OBVIOUS
    <3>1. logs'[selected] = logs[selected] /\ InView
      BY <1>2, <1>5 DEF ViewInv
    <3> QED BY <1>1, <2>1, <3>1 DEF InView, Shown
  <2> QED
    BY <1>1, <1>2, <1>3, <2>1, <2>2 DEF ViewKept, ViewInv
<1> QED
  BY <1>4, <1>5

LEMMA ViewWrites ==
  ASSUME ViewInv, NEW m \in View!Matches, View!WriteLog(m)
  PROVE  ViewKept
<1>1. /\ logs[m] # NoLog /\ view_onDisk[m] < logs[m]
      /\ view_onDisk' = [view_onDisk EXCEPT ![m] = view_onDisk[m] + 1]
      /\ UNCHANGED <<status, live, logs, view_page, selected, matchLog, logPos, error>>
  BY DEF View!WriteLog, View!viewVars
<1>2. /\ view_onDisk' \in [View!Matches -> 0 .. MaxShown]
      /\ \A k \in View!Matches : k # m => view_onDisk'[k] = view_onDisk[k]
      /\ status[m] # "none"
  <2>1. view_onDisk[m] + 1 \in 0 .. MaxShown
    BY <1>1, ViewAssumed DEF ViewInv
  <2> QED
    BY <1>1, <2>1 DEF ViewInv
<1>3. view_page = "open" /\ selected # NoMatch => InView'
  <2>1. selected # NoMatch /\ logs[selected] = NoLog => view_onDisk'[selected] = view_onDisk[selected]
    BY <1>1, <1>2 DEF ViewInv
  <2> QED
    BY <1>1, <2>1 DEF ViewInv, InView, Shown
<1> QED
  BY <1>1, <1>2, <1>3 DEF ViewKept, ViewInv

LEMMA ViewEnds ==
  ASSUME ViewInv, NEW m \in View!Matches, View!End(m)
  PROVE  ViewKept
<1>1. /\ m \in live /\ live' = live \ {m} /\ UNCHANGED <<logs, view_onDisk>>
      /\ \/ View!Hears(m, logs[m])
            /\ \E s \in {"finished", "error"} : status' = [status EXCEPT ![m] = s]
         \/ UNCHANGED <<status, view_page, selected, matchLog, logPos, error>>
  BY DEF View!End, View!viewVars
<1>2. /\ status' \in [View!Matches -> {"none", "playing", "finished", "error"}]
      /\ \A k \in View!Matches : status'[k] = "none" => status[k] = "none"
      /\ \A k \in View!Matches : status[k] # "none" => status'[k] # "none"
      /\ live' \subseteq View!Matches
  BY <1>1 DEF ViewInv
<1>3. UNCHANGED <<view_page, selected, matchLog, logPos, error>>
  <2>1. CASE view_page = "open" /\ selected = m /\ View!Hears(m, logs[m])
    <3>1. /\ logs[m] # NoLog /\ logPos = logs[m]
          /\ matchLog = View!Entries(m, 0, logs[m]) /\ logs[m] \in 0 .. MaxShown
      BY <1>1, <2>1, InViewLive DEF ViewInv
    <3>2. View!Receive(m, logs[m]) /\ logPos <= logs[m]
      BY <2>1, <3>1 DEF View!Hears
    <3> QED
      BY <2>1, <3>1, <3>2, Receives
  <2>2. CASE ~(view_page = "open" /\ selected = m) /\ View!Hears(m, logs[m])
    BY <2>2 DEF View!Hears, View!viewVars
  <2> QED
    BY <1>1, <2>1, <2>2
<1>4. view_page = "open" /\ selected # NoMatch => InView'
  BY <1>1, <1>3 DEF ViewInv, InView, Shown
<1> QED
  BY <1>1, <1>2, <1>3, <1>4 DEF ViewKept, ViewInv

LEMMA ViewNext == ViewInv /\ (View!Next \/ UNCHANGED view) => ViewInv'
<1>1. ViewInv /\ View!Next => ViewInv'
  BY ViewMoves, ViewSelects, ViewPlays, ViewLogs, ViewWrites, ViewEnds DEF View!Next, ViewKept
<1>2. ViewInv /\ UNCHANGED view => ViewInv'
  BY DEF ViewInv, InView, Shown, view
<1> QED
  BY <1>1, <1>2

LEMMA ViewCrashes == ViewInv /\ View!Next => View!CrashesOnEmptyFilesOnly
BY ViewMoves, ViewSelects, ViewPlays, ViewLogs, ViewWrites, ViewEnds
   DEF View!Next, ViewKept, View!CrashesOnEmptyFilesOnly
-----------------------------------------------------------------------------
(* Sorting by insertion *)

LEMMA LeastNumber ==
  ASSUME NEW T \in SUBSET Nat, T # {}
  PROVE  \E n \in T : \A k \in T : n <= k
<1> DEFINE R == OpToRel(<, Nat)
<1>1. IsWellFoundedOn(R, Nat)
  BY NatLessThanWellFounded, Zenon
<1>2. PICK n \in T : \A k \in T : ~(<<k, n>> \in R)
  <2> HIDE DEF R
  <2> QED
    BY <1>1, WFMin
<1>3. \A k \in T : ~(k < n)
  BY <1>2 DEF OpToRel
<1> QED
  BY <1>3

LEMMA GreatestNumber ==
  ASSUME NEW T \in SUBSET Nat, T # {}, NEW b \in Nat, \A k \in T : k <= b
  PROVE  \E n \in T : \A k \in T : k <= n
<1> DEFINE D == {k \in Nat : b - k \in T}
<1>1. D # {}
  <2>1. PICK n \in T : TRUE
    OBVIOUS
  <2>2. b - n \in Nat /\ b - (b - n) = n
    BY <2>1
  <2> QED
    BY <2>1, <2>2
<1>2. PICK d \in D : \A k \in D : d <= k
  <2> HIDE DEF D
  <2>1. D \in SUBSET Nat
    BY DEF D
  <2> QED
    BY <1>1, <2>1, LeastNumber
<1>3. \A k \in T : b - k \in D
  <2> TAKE k \in T
  <2>1. b - k \in Nat /\ b - (b - k) = k
    OBVIOUS
  <2> QED
    BY <2>1
<1>4. \A k \in T : k <= b - d
  BY <1>2, <1>3
<1> QED
  BY <1>2, <1>4

LEMMA InsertAtFacts ==
  ASSUME NEW S, NEW s \in Seq(S), NEW x \in S, NEW i \in 1 .. Len(s) + 1
  PROVE  /\ List!InsertAt(s, i, x) \in Seq(S)
         /\ Len(List!InsertAt(s, i, x)) = Len(s) + 1
         /\ \A k \in 1 .. Len(s) + 1 : List!InsertAt(s, i, x)[k] =
              IF k < i THEN s[k] ELSE IF k = i THEN x ELSE s[k - 1]
<1> DEFINE a == SubSeq(s, 1, i - 1)
           b == SubSeq(s, i, Len(s))
           ax == a \o <<x>>
<1>1. /\ Len(s) \in Nat /\ i \in 1 .. Len(s) + 1
      /\ \A k \in 1 .. Len(s) : s[k] \in S
  OBVIOUS
<1>2. /\ a \in Seq(S) /\ Len(a) = i - 1
      /\ \A k \in 1 .. i - 1 : a[k] = s[k]
  <2>1. \A k \in 1 .. i - 1 : s[k] \in S
    BY <1>1
  <2> QED
    BY <1>1, <2>1, SubSeqProperties
<1>3. /\ b \in Seq(S) /\ Len(b) = Len(s) - i + 1
      /\ \A k \in 1 .. Len(s) - i + 1 : b[k] = s[i + k - 1]
  <2>1. \A k \in i .. Len(s) : s[k] \in S
    BY <1>1
  <2>2. /\ b \in Seq(S) /\ Len(b) = IF i <= Len(s) THEN Len(s) - i + 1 ELSE 0
        /\ \A k \in 1 .. Len(s) - i + 1 : b[k] = s[i + k - 1]
    BY <1>1, <2>1, SubSeqProperties
  <2> QED
    BY <1>1, <2>2
<1>4. List!InsertAt(s, i, x) = ax \o b
  BY DEF List!InsertAt
<1> HIDE DEF a, b
<1>5. /\ ax \in Seq(S) /\ Len(ax) = i
      /\ \A k \in 1 .. i : ax[k] = IF k < i THEN s[k] ELSE x
  <2>1. /\ <<x>> \in Seq(S) /\ Len(<<x>>) = 1 /\ <<x>>[1] = x
    OBVIOUS
  <2>2. /\ ax \in Seq(S) /\ Len(ax) = Len(a) + 1
        /\ \A k \in 1 .. Len(a) + 1 : ax[k] = IF k <= Len(a) THEN a[k] ELSE <<x>>[k - Len(a)]
    BY <1>2, <2>1, ConcatProperties
  <2> QED
    BY <1>1, <1>2, <2>1, <2>2
<1> HIDE DEF ax
<1>6. /\ ax \o b \in Seq(S) /\ Len(ax \o b) = Len(ax) + Len(b)
      /\ \A k \in 1 .. Len(ax) + Len(b) :
           (ax \o b)[k] = IF k <= Len(ax) THEN ax[k] ELSE b[k - Len(ax)]
  BY <1>3, <1>5, ConcatProperties
<1>7. ASSUME NEW k \in 1 .. Len(s) + 1
      PROVE  (ax \o b)[k] = IF k < i THEN s[k] ELSE IF k = i THEN x ELSE s[k - 1]
  BY <1>1, <1>3, <1>5, <1>6
<1> QED
  BY <1>1, <1>3, <1>4, <1>5, <1>6, <1>7

\* After is the converse of an order on S that ranks all its elements.
Ranks(After, S) ==
    /\ \A a, b \in S : <<a, b>> \in After => <<b, a>> \notin After
    /\ \A a, b, c \in S : <<a, b>> \notin After /\ <<b, c>> \notin After => <<a, c>> \notin After

Ascends(s, After) == \A i, k \in 1 .. Len(s) : i < k => <<s[i], s[k]>> \notin After

\* An element is put at some place of an ascending list, which stays ascending.
LEMMA InsertedFacts ==
  ASSUME NEW S, NEW s \in Seq(S), NEW x \in S, NEW After, Ranks(After, S), Ascends(s, After)
  PROVE  /\ List!Inserted(s, x, After) \in Seq(S)
         /\ Len(List!Inserted(s, x, After)) = Len(s) + 1
         /\ \E i \in 1 .. Len(s) + 1 : \A k \in 1 .. Len(s) + 1 :
              List!Inserted(s, x, After)[k] =
                IF k < i THEN s[k] ELSE IF k = i THEN x ELSE s[k - 1]
         /\ Ascends(List!Inserted(s, x, After), After)
<1> DEFINE stays == {j \in DOMAIN s : <<s[j], x>> \notin After}
           places == stays \union {0}
<1>0. Len(s) \in Nat /\ DOMAIN s = 1 .. Len(s) /\ \A k \in 1 .. Len(s) : s[k] \in S
  BY LenProperties
<1>1. PICK m \in places : \A k \in places : k <= m
  <2>1. places \in SUBSET Nat /\ places # {} /\ \A k \in places : k <= Len(s)
    BY <1>0
  <2> HIDE DEF places
  <2> QED
    BY <1>0, <2>1, GreatestNumber
<1>2. List!Max(places) = m
  <2>1. m \in Nat /\ places \subseteq Nat
    BY <1>0, <1>1
  <2> HIDE DEF places
  <2>2. \A y \in places : (\A k \in places : y >= k) => y = m
    <3> SUFFICES ASSUME NEW y \in places, \A k \in places : y >= k PROVE y = m
      OBVIOUS
    <3>1. y >= m /\ y <= m /\ y \in Nat
      BY <1>1, <2>1
    <3> QED BY <2>1, <3>1
  <2>3. m \in places /\ \A k \in places : m >= k
    BY <1>1, <2>1
  <2> QED
    BY <2>2, <2>3 DEF List!Max
<1>3. m \in 0 .. Len(s)
  BY <1>0, <1>1
<1> DEFINE out == List!Inserted(s, x, After)
<1>4. out = List!InsertAt(s, m + 1, x)
  BY <1>2 DEF List!Inserted
<1>5. /\ out \in Seq(S) /\ Len(out) = Len(s) + 1
      /\ \A k \in 1 .. Len(s) + 1 : out[k] =
           IF k < m + 1 THEN s[k] ELSE IF k = m + 1 THEN x ELSE s[k - 1]
  <2> DEFINE n == m + 1
  <2>1. n \in 1 .. Len(s) + 1
    BY <1>0, <1>3
  <2> HIDE DEF n, out
  <2>2. /\ List!InsertAt(s, n, x) \in Seq(S) /\ Len(List!InsertAt(s, n, x)) = Len(s) + 1
        /\ \A k \in 1 .. Len(s) + 1 : List!InsertAt(s, n, x)[k] =
             IF k < n THEN s[k] ELSE IF k = n THEN x ELSE s[k - 1]
    BY <2>1, InsertAtFacts
  <2>3. out = List!InsertAt(s, n, x)
    BY <1>4 DEF n
  <2> QED
    BY <2>2, <2>3 DEF n
<1>6. \A k \in 1 .. m : <<s[k], x>> \notin After
  <2> SUFFICES ASSUME NEW k \in 1 .. m PROVE <<s[k], x>> \notin After
    OBVIOUS
  <2>1. m \in 1 .. Len(s) /\ <<s[m], x>> \notin After
    BY <1>0, <1>1, <1>3
  <2>2. k = m \/ <<s[k], s[m]>> \notin After
    BY <1>3, <2>1 DEF Ascends
  <2> QED
    BY <1>0, <1>3, <2>1, <2>2 DEF Ranks
<1>7. \A k \in m + 1 .. Len(s) : <<x, s[k]>> \notin After
  <2> SUFFICES ASSUME NEW k \in m + 1 .. Len(s) PROVE <<x, s[k]>> \notin After
    OBVIOUS
  <2>1. k \in 1 .. Len(s) /\ k \notin places
    <3> HIDE DEF places
    <3>1. k \in 1 .. Len(s) /\ k > m
      BY <1>0, <1>3
    <3>2. \A j \in places : j <= m /\ m \in Nat
      BY <1>0, <1>1, <1>3
    <3> QED BY <3>1, <3>2
  <2>2. <<s[k], x>> \in After
    BY <1>0, <2>1
  <2> QED
    BY <1>0, <2>1, <2>2 DEF Ranks
<1> HIDE DEF out, stays, places
<1>8. Ascends(out, After)
  <2> SUFFICES ASSUME NEW i \in 1 .. Len(s) + 1, NEW k \in 1 .. Len(s) + 1, i < k
               PROVE  <<out[i], out[k]>> \notin After
    BY <1>5 DEF Ascends
  <2>1. CASE k < m + 1
    BY <1>0, <1>3, <1>5, <2>1 DEF Ascends
  <2>2. CASE k = m + 1
    <3>1. out[k] = x /\ out[i] = s[i] /\ i \in 1 .. m
      BY <1>0, <1>3, <1>5, <2>2
    <3> QED BY <1>6, <3>1
  <2>3. CASE k > m + 1 /\ i = m + 1
    <3>1. out[i] = x /\ out[k] = s[k - 1] /\ k - 1 \in m + 1 .. Len(s)
      BY <1>0, <1>3, <1>5, <2>3
    <3> QED BY <1>7, <3>1
  <2>4. CASE k > m + 1 /\ i < m + 1
    <3>1. out[i] = s[i] /\ out[k] = s[k - 1] /\ i \in 1 .. Len(s) /\ k - 1 \in 1 .. Len(s) /\ i < k - 1
      BY <1>0, <1>3, <1>5, <2>4
    <3> QED BY <3>1 DEF Ascends
  <2>5. CASE k > m + 1 /\ i > m + 1
    <3>1. out[i] = s[i - 1] /\ out[k] = s[k - 1] /\ i - 1 \in 1 .. Len(s) /\ k - 1 \in 1 .. Len(s) /\ i - 1 < k - 1
      BY <1>0, <1>3, <1>5, <2>5
    <3> QED BY <3>1 DEF Ascends
  <2> QED
    BY <1>3, <2>1, <2>2, <2>3, <2>4, <2>5
<1>9. m + 1 \in 1 .. Len(s) + 1
  BY <1>0, <1>3
<1> QED
  BY <1>5, <1>8, <1>9 DEF out

\* The recursive function of the sort exists, by the least length for which it
\* would not.
LEMMA SortUnfolds ==
  ASSUME NEW seq, Len(seq) \in Nat, NEW After
  PROVE  \E g : /\ List!InsertionSort(seq, After) = g[Len(seq)]
                /\ g[0] = <<>>
                /\ \A n \in 1 .. Len(seq) : g[n] = List!Inserted(g[n - 1], seq[n], After)
<1> DEFINE Put(s, n) == List!Inserted(s, seq[n], After)
           IsSort(g, k) == g = [n \in 0 .. k |-> IF n = 0 THEN <<>> ELSE Put(g[n - 1], n)]
           Fails == {k \in Nat : ~\E g : IsSort(g, k)}
<1>1. Fails = {}
  <2> SUFFICES ASSUME Fails # {} PROVE FALSE
    OBVIOUS
  <2>1. Fails \in SUBSET Nat
    OBVIOUS
  <2>2. PICK k \in Fails : \A j \in Fails : k <= j
    <3> HIDE DEF Fails
    <3> QED BY <2>1, LeastNumber
  <2>3. k \in Nat /\ ~\E g : IsSort(g, k)
    OBVIOUS
  <2> HIDE DEF Put
  <2>4. CASE k = 0
    <3> DEFINE h == [n \in 0 .. 0 |-> <<>>]
    <3>1. \A n \in 0 .. 0 : n = 0
      OBVIOUS
    <3>2. h = [n \in 0 .. 0 |-> IF n = 0 THEN <<>> ELSE Put(h[n - 1], n)]
      BY <3>1
    <3> QED
      BY <2>3, <2>4, <3>2
  <2>5. CASE k # 0
    <3>1. k - 1 \in Nat /\ k - 1 \notin Fails
      <4>1. k - 1 \in Nat /\ ~(k <= k - 1)
        BY <2>3, <2>5
      <4> QED BY <2>2, <4>1
    <3>2. PICK g : IsSort(g, k - 1)
      BY <3>1
    <3> DEFINE h == [n \in 0 .. k |-> IF n = k THEN Put(g[k - 1], k) ELSE g[n]]
    <3>3. \A n \in 0 .. k - 1 : g[n] = IF n = 0 THEN <<>> ELSE Put(g[n - 1], n)
      BY <3>2
    <3>4. \A n \in 0 .. k : h[n] = IF n = 0 THEN <<>> ELSE Put(h[n - 1], n)
      <4> SUFFICES ASSUME NEW n \in 0 .. k
                   PROVE  h[n] = IF n = 0 THEN <<>> ELSE Put(h[n - 1], n)
        OBVIOUS
      <4>0. k \in Nat /\ k # 0
        BY <2>3, <2>5
      <4>1. \A i \in 0 .. k - 1 : h[i] = g[i]
        BY <4>0
      <4>2. CASE n = k
        <5>1. h[n] = Put(g[k - 1], k) /\ h[n - 1] = g[k - 1] /\ n # 0
          <6> k - 1 \in 0 .. k - 1
            BY <4>0
          <6> HIDE DEF h
          <6>1. h[k - 1] = g[k - 1]
            BY <4>1
          <6>2. h[k] = Put(g[k - 1], k)
            BY <4>0 DEF h
          <6> QED BY <4>0, <4>2, <6>1, <6>2
        <5> HIDE DEF h
        <5> QED BY <4>2, <5>1
      <4>3. CASE n # k
        <5>1. n \in 0 .. k - 1
          BY <4>0, <4>3
        <5>2. n # 0 => n - 1 \in 0 .. k - 1
          BY <4>0, <5>1
        <5> HIDE DEF h
        <5> QED BY <3>3, <4>1, <5>1, <5>2
      <4> QED BY <4>2, <4>3
    <3>5. IsSort(h, k)
      <4>1. h = [n \in 0 .. k |-> h[n]]
        OBVIOUS
      <4> HIDE DEF h
      <4> QED BY <3>4, <4>1
    <3> QED
      BY <2>3, <3>5
  <2> QED
    BY <2>4, <2>5
<1>2. \E g : IsSort(g, Len(seq))
  BY <1>1
<1> DEFINE f == CHOOSE g : IsSort(g, Len(seq))
<1>3. List!InsertionSort(seq, After) = f[Len(seq)]
  BY DEF List!InsertionSort
<1>4. IsSort(f, Len(seq))
  BY <1>2
<1> HIDE DEF f, Put
<1>5. f[0] = <<>> /\ \A n \in 1 .. Len(seq) : f[n] = Put(f[n - 1], n)
  <2>1. 0 \in 0 .. Len(seq) /\ \A n \in 1 .. Len(seq) : n \in 0 .. Len(seq) /\ n # 0
    OBVIOUS
  <2>2. \A n \in 0 .. Len(seq) : f[n] = IF n = 0 THEN <<>> ELSE Put(f[n - 1], n)
    BY <1>4
  <2> HIDE DEF IsSort
  <2> QED BY <2>1, <2>2
<1> QED
  BY <1>3, <1>5 DEF Put

\* A sorted list has the elements of the list it was made from.
Sorts(out, seq, S, After) ==
    /\ out \in Seq(S) /\ Len(out) = Len(seq) /\ Ascends(out, After)
    /\ \A y : (\E i \in 1 .. Len(seq) : y = out[i]) <=> (\E i \in 1 .. Len(seq) : y = seq[i])

LEMMA SortFacts ==
  ASSUME NEW S, NEW seq \in Seq(S), NEW After, Ranks(After, S)
  PROVE  Sorts(List!InsertionSort(seq, After), seq, S, After)
<1>0. Len(seq) \in Nat /\ \A n \in 1 .. Len(seq) : seq[n] \in S
  OBVIOUS
<1>1. PICK g : /\ List!InsertionSort(seq, After) = g[Len(seq)]
               /\ g[0] = <<>>
               /\ \A n \in 1 .. Len(seq) : g[n] = List!Inserted(g[n - 1], seq[n], After)
  BY <1>0, SortUnfolds
<1> DEFINE Good(n) ==
      /\ g[n] \in Seq(S) /\ Len(g[n]) = n /\ Ascends(g[n], After)
      /\ \A y : (\E i \in 1 .. n : y = g[n][i]) <=> (\E i \in 1 .. n : y = seq[i])
    Bad == {n \in 0 .. Len(seq) : ~Good(n)}
<1>2. Good(0)
  BY <1>1 DEF Ascends
<1>3. ASSUME NEW n \in 1 .. Len(seq), Good(n - 1)
      PROVE  Good(n)
  <2> DEFINE s == g[n - 1]
             x == seq[n]
             out == List!Inserted(s, x, After)
  <2>0. s \in Seq(S) /\ Len(s) = n - 1 /\ Ascends(s, After) /\ x \in S /\ n - 1 + 1 = n
        /\ \A y : (\E i \in 1 .. n - 1 : y = s[i]) <=> (\E i \in 1 .. n - 1 : y = seq[i])
    <3>1. x \in S /\ n - 1 + 1 = n
      BY <1>0
    <3>2. /\ s \in Seq(S) /\ Len(s) = n - 1 /\ Ascends(s, After)
          /\ \A y : (\E i \in 1 .. n - 1 : y = s[i]) <=> (\E i \in 1 .. n - 1 : y = seq[i])
      BY <1>3, Zenon
    <3> QED BY <3>1, <3>2, Zenon
  <2>1. g[n] = out
    BY <1>1
  <2> HIDE DEF s
  <2>2. /\ out \in Seq(S) /\ Len(out) = Len(s) + 1 /\ Ascends(out, After)
        /\ \E i \in 1 .. Len(s) + 1 : \A k \in 1 .. Len(s) + 1 :
             out[k] = IF k < i THEN s[k] ELSE IF k = i THEN x ELSE s[k - 1]
    <3>1. s \in Seq(S) /\ x \in S /\ Ascends(s, After)
      BY <2>0
    <3> HIDE DEF x
    <3>2. /\ List!Inserted(s, x, After) \in Seq(S)
          /\ Len(List!Inserted(s, x, After)) = Len(s) + 1
          /\ \E i \in 1 .. Len(s) + 1 : \A k \in 1 .. Len(s) + 1 :
               List!Inserted(s, x, After)[k] =
                 IF k < i THEN s[k] ELSE IF k = i THEN x ELSE s[k - 1]
          /\ Ascends(List!Inserted(s, x, After), After)
      BY <3>1, InsertedFacts
    <3> QED BY <3>2 DEF out
  <2> HIDE DEF out
  <2>3. PICK i \in 1 .. n : \A k \in 1 .. n :
          out[k] = IF k < i THEN s[k] ELSE IF k = i THEN x ELSE s[k - 1]
    BY <2>0, <2>2
  <2>4. \A k \in 1 .. n : out[k] = x \/ \E j \in 1 .. n - 1 : out[k] = s[j]
    <3> TAKE k \in 1 .. n
    <3>1. CASE k < i
      <4>1. k \in 1 .. n - 1 /\ out[k] = s[k]
        BY <2>3, <3>1
      <4> QED BY <4>1
    <3>2. CASE k = i
      BY <2>3, <3>2
    <3>3. CASE k > i
      <4>1. k - 1 \in 1 .. n - 1 /\ out[k] = s[k - 1]
        BY <2>3, <3>3
      <4> QED BY <4>1
    <3> QED BY <3>1, <3>2, <3>3
  <2>5. \E k \in 1 .. n : out[k] = x
    BY <2>3
  <2>6. \A j \in 1 .. n - 1 : \E k \in 1 .. n : out[k] = s[j]
    <3> TAKE j \in 1 .. n - 1
    <3>1. CASE j < i
      <4>1. j \in 1 .. n /\ out[j] = s[j]
        BY <2>3, <3>1
      <4> QED BY <4>1
    <3>2. CASE j >= i
      <4>1. j + 1 \in 1 .. n /\ out[j + 1] = s[j + 1 - 1] /\ j + 1 - 1 = j
        BY <2>3, <3>2
      <4> QED BY <4>1
    <3> QED BY <3>1, <3>2
  <2>7. \A j \in 1 .. n : j = n \/ j \in 1 .. n - 1
    OBVIOUS
  <2>8. n \in 1 .. n /\ \A j \in 1 .. n - 1 : j \in 1 .. n
    OBVIOUS
  <2>9. ASSUME NEW y
        PROVE  (\E k \in 1 .. n : y = out[k]) <=> (\E k \in 1 .. n : y = seq[k])
    <3>1. ASSUME NEW k \in 1 .. n, y = out[k]
          PROVE  \E j \in 1 .. n : y = seq[j]
      BY <2>0, <2>4, <2>8, <3>1
    <3>2. ASSUME NEW k \in 1 .. n, y = seq[k]
          PROVE  \E j \in 1 .. n : y = out[j]
      <4>1. CASE k = n
        BY <2>5, <3>2, <4>1
      <4>2. CASE k \in 1 .. n - 1
        <5>1. PICK j \in 1 .. n - 1 : y = s[j]
          BY <2>0, <3>2, <4>2
        <5> QED BY <2>6, <5>1
      <4> QED BY <2>7, <4>1, <4>2
    <3> QED BY <3>1, <3>2
  <2> QED
    BY <2>0, <2>1, <2>2, <2>9
<1> HIDE DEF Good
<1>4. Bad = {}
  <2> SUFFICES ASSUME Bad # {} PROVE FALSE
    OBVIOUS
  <2>1. Bad \in SUBSET Nat
    OBVIOUS
  <2>2. PICK n \in Bad : \A j \in Bad : n <= j
    <3> HIDE DEF Bad
    <3> QED BY <2>1, LeastNumber
  <2>3. n \in 1 .. Len(seq) /\ ~Good(n)
    BY <1>2
  <2>4. n - 1 \in 0 .. Len(seq) /\ ~(n <= n - 1)
    BY <1>0, <2>3
  <2>5. Good(n - 1)
    BY <2>2, <2>4
  <2> QED
    BY <1>3, <2>3, <2>5
<1>5. Good(Len(seq))
  <2> Len(seq) \in 0 .. Len(seq)
    BY <1>0
  <2> QED BY <1>4
<1> QED
  BY <1>1, <1>5 DEF Good, Sorts
-----------------------------------------------------------------------------
(* The list of matches *)

Rows == [uuid : Hosted \union Joined, type : {"hosted", "joined"}, players : Lineups,
         map : Maps, timestamp : Nat, status : {"playing", "finished", "error"},
         winners : SUBSET Nat, score : Seq(Nat)]

\* A match has the outcome of its own players, a joined one has one player.
Sound(row) ==
    /\ row.type = "joined" => Len(row.players) = 1
    /\ row.status = "finished" =>
         row.score \in [DOMAIN row.players -> Nat] /\ row.winners \subseteq DOMAIN row.players

ListInv ==
    /\ now \in Nat
    /\ matches \in Seq(Rows)
    /\ \A i \in DOMAIN matches : Sound(matches[i])
    /\ \A i, j \in DOMAIN matches : matches[i].uuid = matches[j].uuid => i = j

LEMMA LineupFacts ==
  ASSUME NEW players \in Lineups
  PROVE  Len(players) \in Nat /\ Len(players) # 0 /\ DOMAIN players = 1 .. Len(players)
<1>1. List!ListAssumption
  BY AppAssumption DEF AppAssumption
<1>2. DOMAIN players = 1 .. Len(players) /\ Len(players) \in 1 .. 10
  BY <1>1 DEF List!ListAssumption
<1> QED
  BY <1>2

LEMMA ListInit == List!Init => ListInv
<1> SUFFICES ASSUME List!Init PROVE ListInv
  OBVIOUS
<1>1. matches = <<>> /\ now = 0
  BY DEF List!Init
<1>2. matches \in Seq(Rows) /\ DOMAIN matches = {}
  <2> HIDE DEF Rows
  <2> QED BY <1>1
<1> QED
  BY <1>1, <1>2 DEF ListInv

LEMMA ListNext == ListInv /\ (List!Next \/ UNCHANGED list) => ListInv'
<1> SUFFICES ASSUME ListInv, List!Next \/ UNCHANGED list
             PROVE  ListInv'
  OBVIOUS
<1>0. /\ now \in Nat /\ matches \in Seq(Rows)
      /\ Len(matches) \in Nat /\ DOMAIN matches = 1 .. Len(matches)
      /\ \A i \in DOMAIN matches : matches[i] \in Rows /\ Sound(matches[i])
      /\ \A i, j \in DOMAIN matches : matches[i].uuid = matches[j].uuid => i = j
  <2>1. /\ now \in Nat /\ matches \in Seq(Rows)
        /\ \A i \in DOMAIN matches : Sound(matches[i])
        /\ \A i, j \in DOMAIN matches : matches[i].uuid = matches[j].uuid => i = j
    BY DEF ListInv
  <2> HIDE DEF Rows
  <2>2. /\ Len(matches) \in Nat /\ DOMAIN matches = 1 .. Len(matches)
        /\ \A i \in DOMAIN matches : matches[i] \in Rows
    BY <2>1, LenProperties
  <2> QED BY <2>1, <2>2
\* A match that a step changes in its place stays the same otherwise.
<1>1. ASSUME now' = now, NEW i \in DOMAIN matches, NEW row \in Rows, Sound(row),
             row.uuid = matches[i].uuid, matches' = [matches EXCEPT ![i] = row]
      PROVE  ListInv'
  <2>1. matches' \in Seq(Rows) /\ DOMAIN matches' = DOMAIN matches
    <3> HIDE DEF Rows
    <3>1. /\ matches' \in [1 .. Len(matches) -> Rows] /\ DOMAIN matches' = 1 .. Len(matches)
      BY <1>0, <1>1
    <3> QED BY <1>0, <3>1, SeqDef
  <2>2. \A k \in DOMAIN matches : matches'[k] = IF k = i THEN row ELSE matches[k]
    BY <1>0, <1>1
  <2>3. \A k \in DOMAIN matches : Sound(matches'[k]) /\ matches'[k].uuid = matches[k].uuid
    BY <1>0, <1>1, <2>2
  <2> HIDE DEF Rows
  <2>4. \A k \in DOMAIN matches' : Sound(matches[k])'
    BY <2>1, <2>3 DEF Sound
  <2> QED
    BY <1>0, <1>1, <2>1, <2>3, <2>4 DEF ListInv
<1>2. CASE UNCHANGED list
  BY <1>2 DEF list, ListInv, Sound
<1>3. CASE List!Tick
  BY <1>3 DEF List!Tick, ListInv, Sound
<1>4. ASSUME NEW m \in Hosted \union Joined, NEW type \in {"hosted", "joined"}, NEW map \in Maps,
             NEW players \in Lineups, List!Save(m, type, players, map)
      PROVE  ListInv'
  <2> DEFINE row == [uuid |-> m, type |-> type, players |-> players, map |-> map,
                     timestamp |-> now, status |-> "playing", winners |-> {}, score |-> <<>>]
  <2>1. /\ matches' = Append(matches, row) /\ now' = now
        /\ \A k \in DOMAIN matches : matches[k].uuid # m
        /\ type = "joined" => Len(players) = 1
    BY <1>4 DEF List!Save, List!Uuids
  <2>2. row \in Rows /\ Sound(row) /\ row.uuid = m
    <3>1. <<>> \in Seq(Nat)
      OBVIOUS
    <3> QED BY <1>0, <2>1, <3>1 DEF Rows, Sound
  <2> HIDE DEF row, Rows
  <2>3. /\ matches' \in Seq(Rows) /\ DOMAIN matches' = 1 .. Len(matches) + 1
        /\ \A k \in 1 .. Len(matches) : matches'[k] = matches[k]
        /\ matches'[Len(matches) + 1] = row
    <3>1. /\ Append(matches, row) \in Seq(Rows)
          /\ Len(Append(matches, row)) = Len(matches) + 1
          /\ \A k \in 1 .. Len(matches) : Append(matches, row)[k] = matches[k]
          /\ Append(matches, row)[Len(matches) + 1] = row
      BY <1>0, <2>2, AppendProperties
    <3>2. DOMAIN Append(matches, row) = 1 .. Len(matches) + 1
      BY <3>1, LenProperties
    <3> QED BY <2>1, <3>1, <3>2
  <2>4. \A k \in DOMAIN matches' : k \in DOMAIN matches \/ k = Len(matches) + 1
    BY <1>0, <2>3
  <2>5. \A k \in DOMAIN matches' : Sound(matches'[k])
    BY <1>0, <2>2, <2>3, <2>4
  <2>6. \A k, l \in DOMAIN matches' : matches'[k].uuid = matches'[l].uuid => k = l
    <3>1. \A k \in DOMAIN matches : matches'[k].uuid = matches[k].uuid
      BY <1>0, <2>3
    <3>2. matches'[Len(matches) + 1].uuid = m
      BY <2>2, <2>3
    <3> QED BY <1>0, <2>1, <2>4, <3>1, <3>2
  <2>7. \A k \in DOMAIN matches' : Sound(matches[k])'
    BY <2>5 DEF Sound
  <2> QED
    BY <1>0, <2>1, <2>3, <2>6, <2>7 DEF ListInv
<1>5. ASSUME NEW i \in DOMAIN matches, List!Fail(i)
      PROVE  ListInv'
  <2>1. now' = now /\ matches' = [matches EXCEPT ![i] = [matches[i] EXCEPT !.status = "error"]]
    BY <1>5 DEF List!Fail
  <2>2. /\ [matches[i] EXCEPT !.status = "error"] \in Rows
        /\ Sound([matches[i] EXCEPT !.status = "error"])
        /\ [matches[i] EXCEPT !.status = "error"].uuid = matches[i].uuid
    BY <1>0 DEF Rows, Sound
  <2> QED
    BY <1>1, <2>1, <2>2
<1>6. ASSUME NEW i \in DOMAIN matches, NEW winners \in SUBSET DOMAIN matches[i].players,
             NEW score \in [DOMAIN matches[i].players -> 0 .. MaxScore],
             List!Complete(i, winners, score)
      PROVE  ListInv'
  <2> DEFINE row == [matches[i] EXCEPT !.status = "finished", !.winners = winners, !.score = score]
  <2>1. now' = now /\ matches' = [matches EXCEPT ![i] = row]
    BY <1>6 DEF List!Complete
  <2>2. matches[i] \in Rows /\ Sound(matches[i]) /\ matches[i].players \in Lineups
    BY <1>0 DEF Rows
  <2>3. /\ winners \in SUBSET Nat /\ score \in Seq(Nat)
        /\ score \in [DOMAIN matches[i].players -> Nat]
    <3> DEFINE n == Len(matches[i].players)
    <3>1. n \in Nat /\ DOMAIN matches[i].players = 1 .. n
      BY <2>2, LineupFacts
    <3> HIDE DEF n
    <3>2. score \in [1 .. n -> Nat]
      BY <3>1
    <3> QED BY <3>1, <3>2, SeqDef
  <2>4. row \in Rows /\ Sound(row) /\ row.uuid = matches[i].uuid
    BY <2>2, <2>3 DEF Rows, Sound
  <2> HIDE DEF row
  <2> QED
    BY <1>1, <2>1, <2>4
<1> QED
  BY <1>2, <1>3, <1>4, <1>5, <1>6 DEF List!Next, Matches

\* An entry of the list before it is rendered, and the list in the order of the store.
Datum(row) == List!MatchData(row)
Data == [i \in DOMAIN matches |-> Datum(matches[i])]

LEMMA DatumFacts ==
  ASSUME NEW row \in Rows
  PROVE  /\ Datum(row).uuid = row.uuid /\ Datum(row).timestamp = row.timestamp
         /\ Datum(row).status = row.status /\ Datum(row).winners = row.winners
         /\ Datum(row).score = row.score /\ Datum(row).type = row.type
         /\ Datum(row).players =
              [i \in DOMAIN row.players |-> [name |-> row.players[i], number |-> i]]
BY DEF Datum, List!MatchData, List!Numbered, Rows

LEMMA ListedFacts ==
  ASSUME ListInv
  PROVE  /\ Len(List!MatchListed) = Len(matches) /\ Len(matches) \in Nat
         /\ DOMAIN List!MatchListed = 1 .. Len(matches)
         /\ \A i \in 1 .. Len(matches) : \E k \in 1 .. Len(matches) :
              List!MatchListed[i] = Datum(matches[k])
         /\ \A k \in 1 .. Len(matches) : \E i \in 1 .. Len(matches) :
              List!MatchListed[i] = Datum(matches[k])
         /\ \A i, k \in 1 .. Len(matches) : i < k =>
              List!MatchListed[i].timestamp >= List!MatchListed[k].timestamp
<1> DEFINE S == List!ToSet(Data)
           After == List!MatchAfter(Data)
           n == Len(matches)
           out == List!InsertionSort(Data, After)
<1>1. n \in Nat /\ DOMAIN matches = 1 .. n /\ \A i \in 1 .. n : matches[i] \in Rows
  <2>1. matches \in Seq(Rows)
    BY DEF ListInv
  <2> HIDE DEF Rows
  <2> QED BY <2>1, LenProperties
<1> HIDE DEF n
<1>2. /\ DOMAIN Data = 1 .. n /\ \A i \in 1 .. n : Data[i] = Datum(matches[i])
      /\ \A y : y \in S <=> \E i \in 1 .. n : y = Data[i]
  BY <1>1, Zenon DEF Data, List!ToSet
<1>3. \A y \in S : y.timestamp \in Nat
  <2> TAKE y \in S
  <2>1. PICK i \in 1 .. n : y = Datum(matches[i])
    BY <1>2
  <2> QED
    BY ZenonT(40), <1>1, <2>1, DatumFacts DEF Rows
<1> HIDE DEF S
<1>4. \A a, b \in S : <<a, b>> \in After <=> b.timestamp > a.timestamp
  <2> SUFFICES ASSUME NEW a \in S, NEW b \in S
               PROVE  <<a, b>> \in After <=> b.timestamp > a.timestamp
    BY Zenon
  <2>1. <<a, b>> \in List!Pairs(Data) /\ <<a, b>>[1] = a /\ <<a, b>>[2] = b
    BY DEF List!Pairs, S
  <2> QED
    BY <2>1 DEF List!MatchAfter
<1> HIDE DEF After
<1>5. Ranks(After, S)
  BY <1>3, <1>4 DEF Ranks
<1>6. Data \in Seq(S) /\ Len(Data) = n
  <2>1. Data \in [1 .. n -> S]
    <3>1. \A i \in 1 .. n : Data[i] \in S
      BY <1>2
    <3>2. Data = [i \in 1 .. n |-> Data[i]]
      BY <1>2 DEF Data
    <3> QED BY <3>1, <3>2
  <2> QED
    BY <1>1, <2>1, SeqDef
<1>7. /\ out \in Seq(S) /\ Len(out) = n /\ Ascends(out, After)
      /\ \A y : (\E i \in 1 .. n : y = out[i]) <=> (\E i \in 1 .. n : y = Data[i])
  <2>1. Sorts(out, Data, S, After)
    BY <1>5, <1>6, SortFacts
  <2> QED
    BY <1>6, <2>1, Zenon DEF Sorts
<1>8. List!MatchListed = out
  BY DEF List!MatchListed, Data, Datum, After
<1> HIDE DEF out
<1>9. DOMAIN out = 1 .. n /\ \A i \in 1 .. n : out[i] \in S
  BY <1>1, <1>7, LenProperties
<1>10. \A i, k \in 1 .. n : i < k => out[i].timestamp >= out[k].timestamp
  <2> SUFFICES ASSUME NEW i \in 1 .. n, NEW k \in 1 .. n, i < k
               PROVE  out[i].timestamp >= out[k].timestamp
    OBVIOUS
  <2>1. <<out[i], out[k]>> \notin After
    BY <1>7 DEF Ascends
  <2>2. ~(out[k].timestamp > out[i].timestamp)
    BY <1>4, <1>9, <2>1
  <2> QED
    BY <1>3, <1>9, <2>2
<1>11. /\ \A i \in 1 .. n : \E k \in 1 .. n : out[i] = Datum(matches[k])
       /\ \A k \in 1 .. n : \E i \in 1 .. n : out[i] = Datum(matches[k])
  <2>1. \A i \in 1 .. n : \E k \in 1 .. n : out[i] = Data[k]
    BY <1>7, Zenon
  <2>2. \A k \in 1 .. n : \E i \in 1 .. n : out[i] = Data[k]
    BY <1>7, Zenon
  <2> QED
    BY <1>2, <2>1, <2>2, ZenonT(40)
<1> QED
  BY <1>1, <1>7, <1>8, <1>9, <1>10, <1>11 DEF n

LEMMA RenderedFacts ==
  ASSUME ListInv
  PROVE  /\ Len(matches) \in Nat /\ DOMAIN matches = 1 .. Len(matches)
         /\ \A i \in 1 .. Len(matches) : matches[i] \in Rows /\ Sound(matches[i])
         /\ Len(List!Rendered) = Len(matches)
         /\ DOMAIN List!Rendered = 1 .. Len(matches)
         /\ \A i \in 1 .. Len(matches) :
              List!Rendered[i] = List!MatchListEntry(List!MatchListed[i])
<1>1. /\ Len(matches) \in Nat /\ DOMAIN matches = 1 .. Len(matches)
      /\ \A i \in 1 .. Len(matches) : matches[i] \in Rows /\ Sound(matches[i])
  <2>1. matches \in Seq(Rows) /\ \A i \in DOMAIN matches : Sound(matches[i])
    BY DEF ListInv
  <2> HIDE DEF Rows
  <2> QED BY <2>1, LenProperties
<1>2. DOMAIN List!MatchListed = 1 .. Len(matches)
  BY ListedFacts
<1>3. List!Rendered = [i \in 1 .. Len(matches) |-> List!MatchListEntry(List!MatchListed[i])]
  BY <1>2, Zenon DEF List!Rendered
<1> DEFINE E(i) == List!MatchListEntry(List!MatchListed[i])
<1> HIDE DEF E
<1>4. List!Rendered = [i \in 1 .. Len(matches) |-> E(i)]
  BY <1>3 DEF E
<1>5. /\ Len(List!Rendered) = Len(matches) /\ DOMAIN List!Rendered = 1 .. Len(matches)
      /\ \A i \in 1 .. Len(matches) : List!Rendered[i] = E(i)
  <2> DEFINE V == {E(i) : i \in 1 .. Len(matches)}
             r == [i \in 1 .. Len(matches) |-> E(i)]
  <2>1. r \in [1 .. Len(matches) -> V]
    OBVIOUS
  <2>2. r \in Seq(V) /\ DOMAIN r = 1 .. Len(matches)
    BY <1>1, <2>1, SeqDef
  <2>3. \A i \in 1 .. Len(matches) : r[i] = E(i)
    OBVIOUS
  <2> HIDE DEF r, V
  <2>4. Len(r) = Len(matches)
    BY <1>1, <2>2, LenProperties
  <2>5. List!Rendered = r
    BY <1>4 DEF r
  <2> QED BY <2>2, <2>3, <2>4, <2>5
<1> QED
  BY <1>1, <1>5 DEF E

LEMMA EntryFacts ==
  ASSUME NEW e
  PROVE  /\ List!MatchListEntry(e).uuid = e.uuid
         /\ List!MatchListEntry(e).time = e.timestamp
         /\ List!MatchListEntry(e).players =
              [i \in DOMAIN List!PlayerData(e) |-> List!PlayerEntry(List!PlayerData(e)[i])]
BY Zenon DEF List!MatchListEntry

LEMMA ListNewestFirst == ListInv => List!NewestFirst
<1> SUFFICES ASSUME ListInv PROVE List!NewestFirst
  OBVIOUS
<1> DEFINE n == Len(matches)
           out == List!MatchListed
           page == List!Rendered
<1>1. /\ n \in Nat /\ DOMAIN matches = 1 .. n
      /\ \A i \in 1 .. n : matches[i] \in Rows
      /\ Len(page) = n /\ DOMAIN page = 1 .. n
      /\ \A i \in 1 .. n : page[i] = List!MatchListEntry(out[i])
  BY RenderedFacts
<1>2. /\ \A i \in 1 .. n : \E k \in 1 .. n : out[i] = Datum(matches[k])
      /\ \A k \in 1 .. n : \E i \in 1 .. n : out[i] = Datum(matches[k])
      /\ \A i, k \in 1 .. n : i < k => out[i].timestamp >= out[k].timestamp
  BY ListedFacts
<1> HIDE DEF out, page, n
<1>3. \A i \in 1 .. n : page[i].uuid = out[i].uuid /\ page[i].time = out[i].timestamp
  BY <1>1, EntryFacts
<1>4. \A k \in 1 .. n : Datum(matches[k]).uuid = matches[k].uuid
  BY <1>1, DatumFacts
<1>5. {page[i].uuid : i \in DOMAIN page} = {matches[k].uuid : k \in DOMAIN matches}
  <2>1. \A i \in 1 .. n : \E k \in 1 .. n : page[i].uuid = matches[k].uuid
    <3> TAKE i \in 1 .. n
    <3>1. PICK k \in 1 .. n : out[i] = Datum(matches[k])
      BY <1>2
    <3> QED BY <1>3, <1>4, <3>1
  <2>2. \A k \in 1 .. n : \E i \in 1 .. n : page[i].uuid = matches[k].uuid
    <3> TAKE k \in 1 .. n
    <3>1. PICK i \in 1 .. n : out[i] = Datum(matches[k])
      BY <1>2
    <3> QED BY <1>3, <1>4, <3>1
  <2> DEFINE p(i) == page[i].uuid
             q(k) == matches[k].uuid
  <2>3. /\ \A i \in 1 .. n : \E k \in 1 .. n : p(i) = q(k)
        /\ \A k \in 1 .. n : \E i \in 1 .. n : p(i) = q(k)
    BY <2>1, <2>2, Zenon
  <2> HIDE DEF p, q
  <2>4. {p(i) : i \in 1 .. n} = {q(k) : k \in 1 .. n}
    BY <2>3
  <2> QED
    BY <1>1, <2>4, Zenon DEF p, q
<1>6. \A i, j \in DOMAIN page : i < j => page[i].time >= page[j].time
  <2> SUFFICES ASSUME NEW i \in 1 .. n, NEW j \in 1 .. n, i < j
               PROVE  page[i].time >= page[j].time
    BY <1>1
  <2>1. page[i].time = out[i].timestamp /\ page[j].time = out[j].timestamp
    BY <1>3
  <2>2. out[i].timestamp >= out[j].timestamp
    BY <1>2
  <2> QED
    BY <2>1, <2>2
<1> QED
  BY <1>1, <1>5, <1>6 DEF List!NewestFirst, List!Uuids, page, n

\* What calcPlayerData makes of a match, before and after its sort.
RawData(row) ==
    LET finished == row.status = "finished" IN
    [i \in DOMAIN row.players |->
       [name |-> row.players[i], number |-> i,
        isWinner |-> finished /\ i \in row.winners,
        score |-> IF finished THEN row.score[i] ELSE 0]]

PlayersOf(row) == List!PlayerData(Datum(row))

LEMMA RawFacts ==
  ASSUME NEW row \in Rows
  PROVE  PlayersOf(row) = IF row.status = "finished"
                      THEN List!InsertionSort(RawData(row), List!PlayerAfter(RawData(row)))
                      ELSE RawData(row)
<1> DEFINE entry == Datum(row)
           finished == row.status = "finished"
           data == [i \in DOMAIN entry.players |->
                      [name |-> entry.players[i].name, number |-> entry.players[i].number,
                       isWinner |-> finished /\ i \in entry.winners,
                       score |-> IF finished THEN entry.score[i] ELSE 0]]
<1>1. /\ entry.status = row.status /\ entry.winners = row.winners /\ entry.score = row.score
      /\ entry.players = [i \in DOMAIN row.players |-> [name |-> row.players[i], number |-> i]]
  BY DatumFacts
<1> HIDE DEF entry
<1>2. data = RawData(row)
  <2>1. DOMAIN entry.players = DOMAIN row.players
    BY <1>1
  <2>2. \A i \in DOMAIN row.players :
           entry.players[i].name = row.players[i] /\ entry.players[i].number = i
    BY <1>1
  <2> QED
    BY <1>1, <2>1, <2>2 DEF RawData
<1>3. PlayersOf(row) = IF finished THEN List!InsertionSort(data, List!PlayerAfter(data)) ELSE data
  BY <1>1, Zenon DEF List!PlayerData, PlayersOf, entry
<1> QED
  BY <1>2, <1>3, Zenon

LEMMA ShownFacts ==
  ASSUME NEW row \in Rows, Sound(row)
  PROVE  LET n == Len(row.players)
             raw == RawData(row)
         IN /\ n \in Nat /\ DOMAIN row.players = 1 .. n
            /\ DOMAIN PlayersOf(row) = 1 .. n
            /\ \A i \in 1 .. n : \E j \in 1 .. n : PlayersOf(row)[i] = raw[j]
            /\ row.status = "finished" =>
                 \A i, k \in 1 .. n : i < k =>
                   LET a == PlayersOf(row)[i]
                       b == PlayersOf(row)[k]
                   IN \/ a.isWinner /\ ~b.isWinner
                      \/ (a.isWinner <=> b.isWinner) /\ a.score >= b.score
<1> DEFINE n == Len(row.players)
           raw == RawData(row)
           S == List!ToSet(raw)
           After == List!PlayerAfter(raw)
           out == List!InsertionSort(raw, After)
           Before(a, b) == \/ a.isWinner /\ ~b.isWinner
                           \/ (a.isWinner <=> b.isWinner) /\ a.score >= b.score
<1>1. n \in Nat /\ DOMAIN row.players = 1 .. n
  BY LineupFacts DEF Rows
<1> HIDE DEF n
<1>2. /\ DOMAIN raw = 1 .. n
      /\ \A y : y \in S <=> \E i \in 1 .. n : y = raw[i]
      /\ raw = [i \in 1 .. n |-> raw[i]]
  BY <1>1, Zenon DEF RawData, List!ToSet
<1>3. raw \in Seq(S) /\ Len(raw) = n
  <2>1. raw \in [1 .. n -> S]
    <3> HIDE DEF raw, S
    <3> QED BY <1>2
  <2> HIDE DEF raw, S
  <2> QED
    BY <1>1, <1>2, <2>1, SeqDef
<1>4. CASE row.status # "finished"
  <2>1. PlayersOf(row) = raw
    BY <1>4, RawFacts
  <2> HIDE DEF raw
  <2>2. \A i \in 1 .. n : \E j \in 1 .. n : PlayersOf(row)[i] = raw[j]
    BY <2>1
  <2> QED
    BY <1>1, <1>2, <1>4, <2>1, <2>2 DEF n, raw
<1>5. CASE row.status = "finished"
  <2>1. PlayersOf(row) = out
    BY <1>5, RawFacts
  <2>2. \A y \in S : y.isWinner \in BOOLEAN /\ y.score \in Nat
    <3> TAKE y \in S
    <3>1. PICK i \in 1 .. n : y = raw[i]
      BY <1>2
    <3>2. /\ raw[i].isWinner = (row.status = "finished" /\ i \in row.winners)
          /\ raw[i].score = row.score[i]
      BY <1>1, <1>5 DEF RawData
    <3>3. row.score[i] \in Nat
      BY <1>1, <1>5 DEF Sound
    <3> HIDE DEF raw, S
    <3>4. y.isWinner \in BOOLEAN
      BY <3>1, <3>2, Zenon
    <3> QED
      BY <3>1, <3>2, <3>3, <3>4
  <2> HIDE DEF raw, S
  <2>3. ASSUME NEW a \in S, NEW b \in S
        PROVE  <<a, b>> \in After <=>
                 \/ b.isWinner /\ ~a.isWinner
                 \/ a.isWinner = b.isWinner /\ b.score > a.score
    <3>1. <<a, b>> \in List!Pairs(raw) /\ <<a, b>>[1] = a /\ <<a, b>>[2] = b
      BY DEF List!Pairs, S
    <3> QED
      BY <3>1 DEF List!PlayerAfter
  <2> HIDE DEF After
  <2>4. \A a, b \in S : <<a, b>> \notin After => Before(a, b)
    <3> SUFFICES ASSUME NEW a \in S, NEW b \in S, <<a, b>> \notin After
                 PROVE  Before(a, b)
      OBVIOUS
    <3>1. /\ a.isWinner \in BOOLEAN /\ b.isWinner \in BOOLEAN
          /\ a.score \in Nat /\ b.score \in Nat
      BY <2>2
    <3>2. ~(\/ b.isWinner /\ ~a.isWinner
            \/ a.isWinner = b.isWinner /\ b.score > a.score)
      BY <2>3
    <3>3. ~(b.score > a.score) => a.score >= b.score
      BY <3>1
    <3> QED
      BY <3>1, <3>2, <3>3, Zenon
  <2>5. Ranks(After, S)
    <3>1. ASSUME NEW a \in S, NEW b \in S, <<a, b>> \in After
          PROVE  <<b, a>> \notin After
      <4>1. ~(b.score > a.score /\ a.score > b.score)
        BY <2>2
      <4> QED
        BY <2>3, <3>1, <4>1, Zenon
    <3>2. ASSUME NEW a \in S, NEW b \in S, NEW c \in S,
                 <<a, b>> \notin After, <<b, c>> \notin After
          PROVE  <<a, c>> \notin After
      <4>1. Before(a, b) /\ Before(b, c)
        BY <2>4, <3>2
      <4>2. /\ a.isWinner \in BOOLEAN /\ b.isWinner \in BOOLEAN /\ c.isWinner \in BOOLEAN
        BY <2>2
      <4>3. a.score >= b.score /\ b.score >= c.score => ~(c.score > a.score)
        BY <2>2
      <4> QED
        BY <2>3, <4>1, <4>2, <4>3, Zenon
    <3> QED BY <3>1, <3>2 DEF Ranks
  <2>6. Sorts(out, raw, S, After)
    BY <1>3, <2>5, SortFacts
  <2> HIDE DEF out
  <2>7. /\ out \in Seq(S) /\ Len(out) = n /\ Ascends(out, After)
        /\ \A i \in 1 .. n : \E j \in 1 .. n : out[i] = raw[j]
    BY <1>3, <2>6, Zenon DEF Sorts
  <2>8. DOMAIN out = 1 .. n /\ \A i \in 1 .. n : out[i] \in S
    BY <1>1, <2>7, LenProperties
  <2>9. \A i, k \in 1 .. n : i < k => Before(out[i], out[k])
    <3> HIDE DEF Before
    <3> SUFFICES ASSUME NEW i \in 1 .. n, NEW k \in 1 .. n, i < k
                 PROVE  Before(out[i], out[k])
      OBVIOUS
    <3>1. <<out[i], out[k]>> \notin After
      BY <2>7 DEF Ascends
    <3> QED
      BY <2>4, <2>8, <3>1
  <2> QED
    BY <1>1, <2>1, <2>7, <2>8, <2>9, Zenon DEF n, raw
<1> QED
  BY <1>4, <1>5

\* Each entry shows a match of the store, the one of its uuid.
LEMMA EntryShows ==
  ASSUME ListInv, NEW e \in List!ToSet(List!Rendered)
  PROVE  LET row == List!Find(e.uuid) IN
         /\ row \in Rows /\ Sound(row)
         /\ e.players = [i \in DOMAIN PlayersOf(row) |-> List!PlayerEntry(PlayersOf(row)[i])]
<1> DEFINE n == Len(matches)
           page == List!Rendered
           row == List!Find(e.uuid)
<1>1. /\ DOMAIN matches = 1 .. n
      /\ \A i \in 1 .. n : matches[i] \in Rows /\ Sound(matches[i])
      /\ DOMAIN page = 1 .. n
      /\ \A i \in 1 .. n : page[i] = List!MatchListEntry(List!MatchListed[i])
  BY RenderedFacts
<1>2. PICK i \in 1 .. n : e = List!MatchListEntry(List!MatchListed[i])
  <2>1. e \in {page[i] : i \in DOMAIN page}
    BY Zenon DEF List!ToSet
  <2> HIDE DEF page
  <2> QED BY <1>1, <2>1
<1>3. PICK k \in 1 .. n : List!MatchListed[i] = Datum(matches[k])
  BY ListedFacts
<1>4. /\ e.uuid = matches[k].uuid
      /\ e.players = [j \in DOMAIN PlayersOf(matches[k]) |-> List!PlayerEntry(PlayersOf(matches[k])[j])]
  <2>1. e = List!MatchListEntry(Datum(matches[k]))
    BY <1>2, <1>3
  <2>2. Datum(matches[k]).uuid = matches[k].uuid
    BY <1>1, DatumFacts
  <2> QED
    BY <2>1, <2>2, EntryFacts, Zenon DEF PlayersOf
<1>5. row = matches[k]
  <2>1. \A l \in DOMAIN matches : matches[l].uuid = matches[k].uuid => l = k
    BY <1>1 DEF ListInv
  <2>2. /\ matches[k] \in List!ToSet(matches)
        /\ \A m \in List!ToSet(matches) : m.uuid = matches[k].uuid => m = matches[k]
    BY <1>1, <2>1, Zenon DEF List!ToSet
  <2>3. row = CHOOSE m \in List!ToSet(matches) : m.uuid = matches[k].uuid
    BY <1>4 DEF List!Find
  <2> QED
    BY <2>2, <2>3
<1> HIDE DEF row
<1>6. /\ row \in Rows /\ Sound(row)
      /\ e.players = [j \in DOMAIN PlayersOf(row) |-> List!PlayerEntry(PlayersOf(row)[j])]
  BY <1>1, <1>4, <1>5
<1> QED
  BY <1>6 DEF row

LEMMA ListRanked == ListInv => List!RankedByOutcome
<1> SUFFICES ASSUME ListInv, NEW e \in List!ToSet(List!Rendered),
                    List!Find(e.uuid).status = "finished",
                    NEW i \in DOMAIN e.players, NEW k \in DOMAIN e.players, i < k
             PROVE  LET match == List!Find(e.uuid)
                        a == e.players[i].number
                        b == e.players[k].number
                    IN \/ a \in match.winners /\ b \notin match.winners
                       \/ (a \in match.winners) = (b \in match.winners)
                          /\ match.score[a] >= match.score[b]
  BY Zenon DEF List!RankedByOutcome
<1> DEFINE row == List!Find(e.uuid)
           n == Len(row.players)
           raw == RawData(row)
           out == PlayersOf(row)
<1>1. /\ row \in Rows /\ Sound(row)
      /\ e.players = [j \in DOMAIN out |-> List!PlayerEntry(out[j])]
  BY EntryShows
<1> HIDE DEF row
<1>2. /\ n \in Nat /\ DOMAIN row.players = 1 .. n /\ DOMAIN out = 1 .. n
      /\ \A j \in 1 .. n : \E l \in 1 .. n : out[j] = raw[l]
      /\ row.status = "finished" =>
           \A j, l \in 1 .. n : j < l =>
             \/ out[j].isWinner /\ ~out[l].isWinner
             \/ (out[j].isWinner <=> out[l].isWinner) /\ out[j].score >= out[l].score
  BY <1>1, ShownFacts, Zenon
<1>3. row.status = "finished"
  BY DEF row
<1>4. \A l \in 1 .. n : /\ raw[l].number = l /\ raw[l].isWinner = (l \in row.winners)
                        /\ raw[l].score = row.score[l]
  BY <1>2, <1>3 DEF RawData
<1> HIDE DEF raw, n
<1>5. /\ i \in 1 .. n /\ k \in 1 .. n
      /\ e.players[i].number = out[i].number /\ e.players[k].number = out[k].number
  <2>1. /\ i \in 1 .. n /\ k \in 1 .. n
        /\ e.players[i] = List!PlayerEntry(out[i]) /\ e.players[k] = List!PlayerEntry(out[k])
    BY <1>1, <1>2
  <2> QED BY <2>1 DEF List!PlayerEntry
<1>6. PICK a \in 1 .. n : out[i] = raw[a]
  BY <1>2, <1>5
<1>7. PICK b \in 1 .. n : out[k] = raw[b]
  BY <1>2, <1>5
<1>8. \/ out[i].isWinner /\ ~out[k].isWinner
      \/ (out[i].isWinner <=> out[k].isWinner) /\ out[i].score >= out[k].score
  BY <1>2, <1>3, <1>5
<1>9. \/ a \in row.winners /\ b \notin row.winners
      \/ (a \in row.winners) = (b \in row.winners) /\ row.score[a] >= row.score[b]
  <2>1. /\ out[i].isWinner = (a \in row.winners) /\ out[i].score = row.score[a]
        /\ out[k].isWinner = (b \in row.winners) /\ out[k].score = row.score[b]
    <3> HIDE DEF out
    <3> QED BY <1>4, <1>6, <1>7
  <2> HIDE DEF out
  <2>2. CASE out[i].isWinner /\ ~out[k].isWinner
    BY <2>1, <2>2, Zenon
  <2>3. CASE (out[i].isWinner <=> out[k].isWinner) /\ out[i].score >= out[k].score
    <3>1. (a \in row.winners) = (b \in row.winners)
      <4>1. (a \in row.winners <=> out[i].isWinner) /\ (b \in row.winners <=> out[k].isWinner)
        BY <2>1
      <4>2. a \in row.winners <=> b \in row.winners
        BY <2>3, <4>1
      <4> QED BY <4>2
    <3>2. row.score[a] >= row.score[b]
      BY <2>1, <2>3
    <3> QED BY <3>1, <3>2
  <2> QED
    BY <1>8, <2>2, <2>3
<1>10. e.players[i].number = a /\ e.players[k].number = b
  BY <1>4, <1>5, <1>6, <1>7
<1> QED
  BY <1>9, <1>10, Zenon DEF row

LEMMA ListNames == ListInv => List!NamesAgree
<1> SUFFICES ASSUME ListInv, NEW e \in List!ToSet(List!Rendered),
                    NEW p \in List!ToSet(e.players)
             PROVE  LET match == List!Find(e.uuid) IN
                    /\ p.name = List!PlayerName(match, p.number)
                    /\ p.trophy <=> match.status = "finished" /\ p.number \in match.winners
  BY Zenon DEF List!NamesAgree
<1> DEFINE row == List!Find(e.uuid)
           n == Len(row.players)
           raw == RawData(row)
           out == PlayersOf(row)
<1>1. /\ row \in Rows /\ Sound(row)
      /\ e.players = [j \in DOMAIN out |-> List!PlayerEntry(out[j])]
  BY EntryShows
<1> HIDE DEF row
<1>2. /\ n \in Nat /\ DOMAIN row.players = 1 .. n /\ DOMAIN out = 1 .. n
      /\ \A j \in 1 .. n : \E l \in 1 .. n : out[j] = raw[l]
  BY <1>1, ShownFacts, Zenon
<1>3. \A l \in 1 .. n : /\ raw[l].number = l /\ raw[l].name = row.players[l]
                        /\ raw[l].isWinner = (row.status = "finished" /\ l \in row.winners)
  BY <1>2 DEF RawData
<1> HIDE DEF raw
<1>4. PICK i \in 1 .. n : p = List!PlayerEntry(out[i])
  <2>1. PICK i \in DOMAIN e.players : p = e.players[i]
    BY Zenon DEF List!ToSet
  <2>2. i \in 1 .. n /\ e.players[i] = List!PlayerEntry(out[i])
    BY <1>1, <1>2, <2>1
  <2> QED BY <2>1, <2>2
<1>5. PICK l \in 1 .. n : out[i] = raw[l]
  BY <1>2, <1>4
<1>6. /\ p.number = l /\ p.name = row.players[l]
      /\ p.trophy = (row.status = "finished" /\ l \in row.winners)
  <2>1. p.number = raw[l].number /\ p.name = raw[l].name /\ p.trophy = raw[l].isWinner
    BY <1>4, <1>5 DEF List!PlayerEntry
  <2> QED
    BY <1>3, <2>1
<1>7. List!PlayerName(row, l) = row.players[l]
  <2>1. CASE row.type = "joined"
    <3>1. n = 1
      BY <1>1, <2>1 DEF Sound
    <3>2. l = 1
      BY <3>1
    <3> QED BY <2>1, <3>2 DEF List!PlayerName
  <2>2. CASE row.type # "joined"
    BY <1>2, <2>2 DEF List!PlayerName
  <2> QED BY <2>1, <2>2
<1> QED
  BY <1>6, <1>7, Zenon DEF row
-----------------------------------------------------------------------------
(* The page of bots *)

Texts == Configs \union {Blank}

\* Every bot has a uuid of its own, one that was given out, and the page has a
\* tile for each; what is typed is a configuration or the blank one.
TilesInv ==
    /\ bot_uuids \in 0 .. MaxBots
    /\ bots \in Seq([uuid : 1 .. bot_uuids, config : Configs])
    /\ \A i, k \in DOMAIN bots : bots[i].uuid = bots[k].uuid => i = k
    /\ Len(tiles) = IF bots_page = "open" THEN Len(bots) ELSE 0
    /\ DOMAIN tiles = 1 .. Len(tiles)
    /\ \A i \in DOMAIN tiles : tiles[i].editing => tiles[i].text \in Texts
    /\ adder.editing => adder.text \in Texts
    /\ bots_page = "away" => ~adder.editing

Uuids(s) == {s[i].uuid : i \in DOMAIN s}

\* What a step does to the bots: it adds one under the next uuid, keeps all, or
\* deletes one of them.
BotsAdded ==
    \E c \in Configs :
       /\ bots' = Append(bots, Tiles!Bot(bot_uuids + 1, c))
       /\ bot_uuids < MaxBots /\ bot_uuids' = bot_uuids + 1

BotsKept ==
    /\ bot_uuids' = bot_uuids
    /\ bots' \in Seq([uuid : 1 .. bot_uuids, config : Configs])
    /\ Len(bots') = Len(bots)
    /\ \A i \in DOMAIN bots : bots'[i].uuid = bots[i].uuid

BotDeleted ==
    /\ bot_uuids' = bot_uuids
    /\ \E i \in DOMAIN bots :
         /\ bots' \in Seq([uuid : 1 .. bot_uuids, config : Configs])
         /\ Len(bots') = Len(bots) - 1
         /\ \A k \in 1 .. Len(bots) - 1 : bots'[k] = bots[IF k < i THEN k ELSE k + 1]

LEMMA RemoveAtFacts ==
  ASSUME NEW S, NEW s \in Seq(S), NEW i \in 1 .. Len(s)
  PROVE  /\ Tiles!RemoveAt(s, i) \in Seq(S)
         /\ Len(Tiles!RemoveAt(s, i)) = Len(s) - 1
         /\ \A k \in 1 .. Len(s) - 1 : Tiles!RemoveAt(s, i)[k] = s[IF k < i THEN k ELSE k + 1]
<1> DEFINE a == SubSeq(s, 1, i - 1)
           b == SubSeq(s, i + 1, Len(s))
<1>1. /\ Len(s) \in Nat /\ i \in 1 .. Len(s)
      /\ \A k \in 1 .. Len(s) : s[k] \in S
  OBVIOUS
<1>2. /\ a \in Seq(S) /\ Len(a) = i - 1
      /\ \A k \in 1 .. i - 1 : a[k] = s[k]
  <2>1. \A k \in 1 .. i - 1 : s[k] \in S
    BY <1>1
  <2> QED
    BY <1>1, <2>1, SubSeqProperties
<1>3. /\ b \in Seq(S) /\ Len(b) = Len(s) - i
      /\ \A k \in 1 .. Len(s) - i : b[k] = s[k + i]
  <2>1. \A k \in i + 1 .. Len(s) : s[k] \in S
    BY <1>1
  <2>2. /\ b \in Seq(S) /\ Len(b) = IF i + 1 <= Len(s) THEN Len(s) - (i + 1) + 1 ELSE 0
        /\ \A k \in 1 .. Len(s) - (i + 1) + 1 : b[k] = s[(i + 1) + k - 1]
    BY <1>1, <2>1, SubSeqProperties
  <2> QED
    BY <1>1, <2>2
<1>4. Tiles!RemoveAt(s, i) = a \o b
  BY DEF Tiles!RemoveAt
<1> HIDE DEF a, b
<1>5. /\ a \o b \in Seq(S)
      /\ Len(a \o b) = Len(a) + Len(b)
      /\ \A k \in 1 .. Len(a) + Len(b) : (a \o b)[k] = IF k <= Len(a) THEN a[k] ELSE b[k - Len(a)]
  BY <1>2, <1>3, ConcatProperties
<1>6. ASSUME NEW k \in 1 .. Len(s) - 1
      PROVE  (a \o b)[k] = s[IF k < i THEN k ELSE k + 1]
  BY <1>1, <1>2, <1>3, <1>5
<1> QED
  BY <1>1, <1>2, <1>3, <1>4, <1>5, <1>6

LEMMA TilesInit == AppAssumption /\ Tiles!Init => TilesInv
BY DEF AppAssumption, Tiles!BotsAssumption, Tiles!Init, Tiles!Showing, TilesInv

\* The bot that a tile shows is in the store, once.
LEMMA BotPlaces ==
  ASSUME TilesInv, NEW i \in DOMAIN bots
  PROVE  Tiles!Places(bots[i].uuid) = {i}
BY DEF TilesInv, Tiles!Places

LEMMA BotSaved ==
  ASSUME TilesInv, NEW i \in DOMAIN tiles, Tiles!Save(i)
  PROVE  BotsKept
<1>1. i \in DOMAIN bots
  BY DEF TilesInv
<1>2. tiles[i].text \in Configs
  BY DEF TilesInv, Texts, Tiles!Save, Tiles!Valid
<1>3. bots' = [k \in DOMAIN bots |-> IF k = i THEN Tiles!Saved(i) ELSE bots[k]]
  <2>1. Tiles!Saved(i).uuid = bots[i].uuid
    BY DEF Tiles!Saved, Tiles!Bot
  <2>2. Tiles!Places(Tiles!Saved(i).uuid) = {i}
    BY <1>1, <2>1, BotPlaces
  <2> QED
    BY <2>2 DEF Tiles!Save, Tiles!Update, Tiles!WithEdited
<1> DEFINE S == [uuid : 1 .. bot_uuids, config : Configs]
<1>4. bots[i] \in S
  <2>1. bots \in Seq(S)
    BY DEF TilesInv
  <2> HIDE DEF S
  <2> QED
    BY <1>1, <2>1
<1>5. Tiles!Saved(i) \in S
  BY <1>1, <1>2, <1>4 DEF Tiles!Saved, Tiles!Bot
<1> HIDE DEF S
<1>6. bots' \in Seq(S) /\ Len(bots') = Len(bots)
  <2>1. bots \in Seq(S)
    BY DEF S, TilesInv
  <2> QED
    BY <1>1, <1>3, <1>5, <2>1
<1> QED
  BY <1>1, <1>3, <1>6 DEF BotsKept, S, Tiles!Save, Tiles!Saved, Tiles!Bot

LEMMA BotRemoved ==
  ASSUME TilesInv, NEW i \in DOMAIN tiles, Tiles!Delete(i)
  PROVE  /\ BotDeleted /\ i \in DOMAIN bots
         /\ \A k \in DOMAIN bots' : bots'[k].uuid # bots[i].uuid
<1>1. i \in 1 .. Len(bots) /\ DOMAIN bots = 1 .. Len(bots) /\ Len(bots) \in Nat
  BY DEF TilesInv
<1>2. (CHOOSE k \in Tiles!Places(bots[i].uuid) : TRUE) = i /\ Tiles!Places(bots[i].uuid) # {}
  BY <1>1, BotPlaces
<1>3. bots' = Tiles!RemoveAt(bots, i) /\ bot_uuids' = bot_uuids
  BY <1>2 DEF Tiles!Delete, Tiles!Update, Tiles!WithRemoved
<1>4. /\ bots' \in Seq([uuid : 1 .. bot_uuids, config : Configs])
      /\ Len(bots') = Len(bots) - 1
      /\ \A k \in 1 .. Len(bots) - 1 : bots'[k] = bots[IF k < i THEN k ELSE k + 1]
  BY <1>1, <1>3, RemoveAtFacts, ZenonT(40) DEF TilesInv
<1>5. \A k \in DOMAIN bots' : bots'[k].uuid # bots[i].uuid
  <2> SUFFICES ASSUME NEW k \in DOMAIN bots' PROVE bots'[k].uuid # bots[i].uuid
    OBVIOUS
  <2>1. k \in 1 .. Len(bots) - 1
    <3>1. DOMAIN bots' = 1 .. Len(bots')
      BY <1>4, LenProperties
    <3> QED BY <1>4, <3>1
  <2> DEFINE l == IF k < i THEN k ELSE k + 1
  <2>2. l \in DOMAIN bots /\ l # i /\ bots'[k] = bots[l]
    <3>1. bots'[k] = bots[l]
      BY <1>4, <2>1
    <3> QED BY <1>1, <2>1, <3>1
  <2> HIDE DEF l
  <2> QED
    BY <1>1, <2>2 DEF TilesInv
<1> QED
  BY <1>1, <1>3, <1>4, <1>5 DEF BotDeleted

LEMMA TilesChange ==
  ASSUME TilesInv, Tiles!Next
  PROVE  /\ BotsAdded \/ BotsKept \/ \E i \in DOMAIN tiles : Tiles!Delete(i)
         /\ \A i \in DOMAIN tiles : Tiles!Delete(i) => BotDeleted
<1>0. UNCHANGED <<bots, bot_uuids>> => BotsKept
  BY DEF TilesInv, BotsKept
<1>1. CASE Tiles!OpenPage \/ Tiles!LeavePage \/ Tiles!Add \/ Tiles!ResetAdded \/ Tiles!DeleteAdded
  BY <1>0, <1>1, BotRemoved DEF Tiles!OpenPage, Tiles!LeavePage, Tiles!Add, Tiles!ResetAdded, Tiles!DeleteAdded
<1>2. CASE Tiles!SaveAdded
  BY <1>2, BotRemoved DEF TilesInv, Texts, Tiles!SaveAdded, Tiles!Valid, Tiles!Update, Tiles!WithAdded, BotsAdded
<1>3. ASSUME NEW c \in Configs, Tiles!PopulateBots(c)
      PROVE  BotsAdded
  BY <1>3 DEF Tiles!PopulateBots, Tiles!Update, Tiles!WithAdded, BotsAdded
<1>4. ASSUME NEW text, Tiles!ChangeAdded(text)
      PROVE  BotsKept
  BY <1>0, <1>4 DEF Tiles!ChangeAdded
<1>5. ASSUME NEW i \in DOMAIN tiles,
             Tiles!Edit(i) \/ Tiles!Reset(i) \/ \E text \in Texts : Tiles!Change(i, text)
      PROVE  BotsKept
  BY <1>0, <1>5 DEF Tiles!Edit, Tiles!Reset, Tiles!Change
<1> QED
  BY <1>1, <1>2, <1>3, <1>4, <1>5, BotSaved, BotRemoved DEF Tiles!Next, Texts

LEMMA TileAssumption == MaxBots \in Nat
BY AppAssumption DEF AppAssumption, Tiles!BotsAssumption

\* Whatever is done to the bots, each keeps a uuid of its own.
LEMMA BotsNext ==
  ASSUME TilesInv, BotsAdded \/ BotsKept \/ BotDeleted
  PROVE  /\ bot_uuids' \in 0 .. MaxBots
         /\ bots' \in Seq([uuid : 1 .. bot_uuids', config : Configs])
         /\ \A i, k \in DOMAIN bots' : bots'[i].uuid = bots'[k].uuid => i = k
<1>0. /\ bots \in Seq([uuid : 1 .. bot_uuids, config : Configs])
      /\ bot_uuids \in 0 .. MaxBots /\ Len(bots) \in Nat /\ DOMAIN bots = 1 .. Len(bots)
      /\ \A i, k \in 1 .. Len(bots) : bots[i].uuid = bots[k].uuid => i = k
  BY DEF TilesInv
<1>1. CASE BotsAdded
  <2> PICK c \in Configs :
         /\ bots' = Append(bots, Tiles!Bot(bot_uuids + 1, c))
         /\ bot_uuids < MaxBots /\ bot_uuids' = bot_uuids + 1
    BY <1>1 DEF BotsAdded
  <2> DEFINE S == [uuid : 1 .. bot_uuids, config : Configs]
             T == [uuid : 1 .. bot_uuids', config : Configs]
             new == Tiles!Bot(bot_uuids + 1, c)
  <2>1. bots \in Seq(S) /\ S \subseteq T
    BY <1>0
  <2>2. new \in T /\ new.uuid = bot_uuids + 1
    BY <1>0 DEF Tiles!Bot
  <2>3. \A i \in 1 .. Len(bots) : bots[i].uuid # bot_uuids + 1
    <3>1. \A bot \in S : bot.uuid # bot_uuids + 1
      BY <1>0
    <3> HIDE DEF S
    <3> QED BY <1>0, <2>1, <3>1
  <2> HIDE DEF S, T, new
  <2>4. bots \in Seq(T)
    BY <2>1
  <2>5. /\ bots' \in Seq(T) /\ Len(bots') = Len(bots) + 1
        /\ \A i \in 1 .. Len(bots) : bots'[i] = bots[i]
        /\ bots'[Len(bots) + 1] = new
    BY <2>2, <2>4, AppendProperties DEF new
  <2>6. DOMAIN bots' = 1 .. Len(bots) + 1
    BY <2>5, LenProperties
  <2>7. \A i, k \in DOMAIN bots' : bots'[i].uuid = bots'[k].uuid => i = k
    <3> SUFFICES ASSUME NEW i \in 1 .. Len(bots) + 1, NEW k \in 1 .. Len(bots) + 1,
                        bots'[i].uuid = bots'[k].uuid
                 PROVE  i = k
      BY <2>6
    <3>1. CASE i \in 1 .. Len(bots) /\ k \in 1 .. Len(bots)
      BY <1>0, <2>5, <3>1
    <3>2. CASE i \in 1 .. Len(bots) /\ k = Len(bots) + 1
      BY <2>2, <2>3, <2>5, <3>2
    <3>3. CASE k \in 1 .. Len(bots) /\ i = Len(bots) + 1
      BY <2>2, <2>3, <2>5, <3>3
    <3> QED
      BY <1>0, <3>1, <3>2, <3>3
  <2>8. bots' \in Seq([uuid : 1 .. bot_uuids', config : Configs])
    BY <2>5 DEF T
  <2>9. bot_uuids' \in 0 .. MaxBots
    BY <1>0, TileAssumption
  <2> QED
    BY <2>7, <2>8, <2>9
<1>2. CASE BotsKept
  <2>1. DOMAIN bots' = 1 .. Len(bots)
    BY <1>2, LenProperties DEF BotsKept
  <2> QED
    BY <1>0, <1>2, <2>1 DEF BotsKept
<1>3. CASE BotDeleted
  <2> PICK i \in DOMAIN bots :
         /\ bots' \in Seq([uuid : 1 .. bot_uuids, config : Configs])
         /\ Len(bots') = Len(bots) - 1
         /\ \A k \in 1 .. Len(bots) - 1 : bots'[k] = bots[IF k < i THEN k ELSE k + 1]
    BY <1>3 DEF BotDeleted
  <2>1. DOMAIN bots' = 1 .. Len(bots) - 1
    BY LenProperties
  <2> DEFINE old(k) == IF k < i THEN k ELSE k + 1
  <2>2. \A k \in 1 .. Len(bots) - 1 : old(k) \in 1 .. Len(bots) /\ bots'[k] = bots[old(k)]
    <3> TAKE k \in 1 .. Len(bots) - 1
    <3>1. old(k) \in 1 .. Len(bots)
      BY <1>0
    <3> QED BY <3>1
  <2>3. ASSUME NEW k \in 1 .. Len(bots) - 1, NEW l \in 1 .. Len(bots) - 1, old(k) = old(l)
        PROVE  k = l
    <3>1. k \in Int /\ l \in Int /\ i \in Int
      BY <1>0
    <3>2. CASE k < i /\ l < i
      BY <2>3, <3>2
    <3>3. CASE ~(k < i) /\ ~(l < i)
      BY <2>3, <3>1, <3>3
    <3>4. CASE (k < i) # (l < i)
      BY <2>3, <3>1, <3>4
    <3> QED BY <3>2, <3>3, <3>4
  <2> HIDE DEF old
  <2>4. ASSUME NEW k \in 1 .. Len(bots) - 1, NEW l \in 1 .. Len(bots) - 1,
               bots'[k].uuid = bots'[l].uuid
        PROVE  k = l
    <3>1. bots[old(k)].uuid = bots[old(l)].uuid /\ old(k) \in 1 .. Len(bots) /\ old(l) \in 1 .. Len(bots)
      BY <2>2, <2>4
    <3>2. old(k) = old(l)
      BY <1>0, <3>1
    <3> QED BY <2>3, <3>2
  <2> QED
    BY <1>0, <1>3, <2>1, <2>4 DEF BotDeleted
<1> QED
  BY <1>1, <1>2, <1>3

\* A tile for each bot, those that stay with what is typed in them.
LEMMA TilesRendered ==
  ASSUME NEW newTiles, Tiles!Update(bots', newTiles),
         DOMAIN bots' = 1 .. Len(bots'), Len(bots') \in Nat,
         \A i \in DOMAIN newTiles : newTiles[i].editing => newTiles[i].text \in Texts
  PROVE  /\ Len(tiles') = IF bots_page = "open" THEN Len(bots') ELSE 0
         /\ DOMAIN tiles' = 1 .. Len(tiles')
         /\ \A i \in DOMAIN tiles' : tiles'[i].editing => tiles'[i].text \in Texts
<1>1. CASE bots_page = "open"
  <2>1. tiles' = [i \in 1 .. Len(bots') |->
                    IF i \in DOMAIN newTiles THEN newTiles[i] ELSE Tiles!Showing]
    BY <1>1 DEF Tiles!Update, Tiles!Rendered
  <2>2. Len(tiles') = Len(bots')
    BY <2>1
  <2>3. ~Tiles!Showing.editing
    BY DEF Tiles!Showing
  <2> QED
    BY <1>1, <2>1, <2>2, <2>3
<1>2. CASE bots_page # "open"
  BY <1>2 DEF Tiles!Update
<1> QED
  BY <1>1, <1>2

LEMMA TileTyped ==
  ASSUME NEW i \in DOMAIN tiles, NEW text \in Texts, NEW typed, NEW of,
         tiles' = [tiles EXCEPT ![i] = Tiles!Editing(text, typed, of)],
         DOMAIN tiles = 1 .. Len(tiles), UNCHANGED <<bots, bots_page, adder>>
  PROVE  /\ Len(tiles') = Len(tiles) /\ DOMAIN tiles' = DOMAIN tiles
         /\ \A k \in DOMAIN tiles : tiles'[k] = tiles[k] \/ tiles'[k].text \in Texts
<1>1. Tiles!Editing(text, typed, of).text = text
  BY DEF Tiles!Editing
<1>2. DOMAIN tiles' = DOMAIN tiles
  OBVIOUS
<1>3. \A k \in DOMAIN tiles : tiles'[k] = IF k = i THEN Tiles!Editing(text, typed, of) ELSE tiles[k]
  OBVIOUS
<1>4. Len(tiles') = Len(tiles)
  OBVIOUS
<1> QED
  BY <1>1, <1>2, <1>3, <1>4

LEMMA TilesNext == TilesInv /\ (Tiles!Next \/ UNCHANGED botTiles) => TilesInv'
<1> SUFFICES ASSUME TilesInv, Tiles!Next
             PROVE  TilesInv'
  BY DEF TilesInv, botTiles
<1>1. BotsAdded \/ BotsKept \/ BotDeleted
  BY TilesChange
<1>2. /\ bot_uuids' \in 0 .. MaxBots
      /\ bots' \in Seq([uuid : 1 .. bot_uuids', config : Configs])
      /\ \A i, k \in DOMAIN bots' : bots'[i].uuid = bots'[k].uuid => i = k
  BY <1>1, BotsNext
<1>3. DOMAIN bots' = 1 .. Len(bots') /\ Len(bots') \in Nat
  BY <1>2, LenProperties
<1>4. /\ DOMAIN tiles = 1 .. Len(tiles)
      /\ Len(tiles) = IF bots_page = "open" THEN Len(bots) ELSE 0
      /\ \A i \in DOMAIN tiles : tiles[i].editing => tiles[i].text \in Texts
      /\ adder.editing => adder.text \in Texts
      /\ bots_page = "away" => ~adder.editing
      /\ \A i \in DOMAIN bots : bots[i].config \in Configs
  <2>1. \A bot \in [uuid : 1 .. bot_uuids, config : Configs] : bot.config \in Configs
    OBVIOUS
  <2>2. \A i \in DOMAIN bots : bots[i] \in [uuid : 1 .. bot_uuids, config : Configs]
    <3> DEFINE S == [uuid : 1 .. bot_uuids, config : Configs]
    <3>1. bots \in Seq(S) BY DEF TilesInv
    <3> HIDE DEF S
    <3>2. \A i \in DOMAIN bots : bots[i] \in S BY <3>1
    <3> QED BY <3>2 DEF S
  <2> QED
    BY <2>1, <2>2 DEF TilesInv
<1>5. /\ \A tile : tile = Tiles!Showing => ~tile.editing
      /\ \A tile, text, typed, of : tile = Tiles!Editing(text, typed, of) => tile.text = text
  BY DEF Tiles!Showing, Tiles!Editing
<1> DEFINE Goal ==
      /\ Len(tiles') = IF bots_page' = "open" THEN Len(bots') ELSE 0
      /\ DOMAIN tiles' = 1 .. Len(tiles')
      /\ \A i \in DOMAIN tiles' : tiles'[i].editing => tiles'[i].text \in Texts
      /\ adder'.editing => adder'.text \in Texts
      /\ bots_page' = "away" => ~adder'.editing
<1>6. ASSUME Tiles!OpenPage PROVE Goal
  <2>1. bots' = bots /\ tiles' = [i \in 1 .. Len(bots) |-> Tiles!Showing]
    BY <1>3, <1>6 DEF Tiles!OpenPage, Tiles!Rendered
  <2>2. Len(tiles') = Len(bots)
    BY <1>3, <2>1
  <2> QED
    BY <1>3, <1>5, <1>6, <2>1, <2>2 DEF Tiles!OpenPage
<1>7. ASSUME Tiles!LeavePage PROVE Goal
  BY <1>5, <1>7 DEF Tiles!LeavePage
<1>8. ASSUME Tiles!Add \/ Tiles!ResetAdded \/ Tiles!DeleteAdded PROVE Goal
  <2>1. UNCHANGED <<bots, tiles, bots_page>> /\ (adder.editing => bots_page # "away")
    BY <1>4, <1>8 DEF Tiles!Add, Tiles!ResetAdded, Tiles!DeleteAdded
  <2>2. \/ adder' = Tiles!Editing(Blank, FALSE, 0) /\ bots_page # "away"
        \/ adder' = Tiles!Showing
    BY <1>8, <2>1 DEF Tiles!Add, Tiles!ResetAdded, Tiles!DeleteAdded
  <2> QED
    BY <1>4, <1>5, <2>1, <2>2 DEF Texts
<1>9. ASSUME Tiles!SaveAdded PROVE Goal
  <2>1. Tiles!Update(bots', tiles) /\ bots_page' = bots_page /\ adder' = Tiles!Showing
    BY <1>9 DEF Tiles!SaveAdded, Tiles!Update
  <2> QED
    BY <1>3, <1>4, <1>5, <2>1, TilesRendered
<1>10. ASSUME NEW c \in Configs, Tiles!PopulateBots(c)
       PROVE  Goal
  <2>1. Tiles!Update(bots', tiles) /\ bots_page' = bots_page /\ adder' = adder
    BY <1>10 DEF Tiles!PopulateBots, Tiles!Update
  <2> QED
    BY <1>3, <1>4, <2>1, TilesRendered
<1>11. ASSUME NEW text \in Texts, Tiles!ChangeAdded(text)
       PROVE  Goal
  BY <1>4, <1>5, <1>11 DEF Tiles!ChangeAdded
<1>12. ASSUME NEW i \in DOMAIN tiles, Tiles!Edit(i) \/ Tiles!Reset(i)
       PROVE  Goal
  <2>1. /\ UNCHANGED <<bots, bots_page, adder>>
        /\ tiles' = [tiles EXCEPT ![i] = Tiles!Editing(bots[i].config, FALSE, bots[i].uuid)]
    BY <1>12 DEF Tiles!Edit, Tiles!Reset
  <2>2. bots[i].config \in Texts
    BY <1>4, <1>3, <2>1 DEF Texts
  <2> QED
    BY <1>4, <1>5, <2>1, <2>2, TileTyped
<1>13. ASSUME NEW i \in DOMAIN tiles, NEW text \in Texts, Tiles!Change(i, text)
       PROVE  Goal
  BY <1>3, <1>4, <1>13, TileTyped DEF Tiles!Change
<1>14. ASSUME NEW i \in DOMAIN tiles, Tiles!Save(i)
       PROVE  Goal
  <2> DEFINE new == [tiles EXCEPT ![i] = Tiles!Showing]
  <2>1. Tiles!Update(bots', new) /\ bots_page' = bots_page /\ adder' = adder
    BY <1>14 DEF Tiles!Save, Tiles!Update
  <2>2. \A k \in DOMAIN new : new[k].editing => new[k].text \in Texts
    BY <1>4, <1>5
  <2> HIDE DEF new
  <2> QED
    BY <1>3, <1>4, <2>1, <2>2, TilesRendered
<1>15. ASSUME NEW i \in DOMAIN tiles, Tiles!Delete(i)
       PROVE  Goal
  <2>1. Tiles!Update(bots', tiles) /\ bots_page' = bots_page /\ adder' = adder
    BY <1>15 DEF Tiles!Delete, Tiles!Update
  <2> QED
    BY <1>3, <1>4, <2>1, TilesRendered
<1>16. Goal
  <2> HIDE DEF Goal
  <2> QED
    BY <1>6, <1>7, <1>8, <1>9, <1>10, <1>11, <1>12, <1>13, <1>14, <1>15 DEF Tiles!Next, Texts
<1> QED
  BY <1>2, <1>16 DEF TilesInv

LEMMA TilesTyped == TilesInv => Tiles!TypeOK
<1> SUFFICES ASSUME TilesInv PROVE Tiles!TypeOK
  OBVIOUS
<1>1. ASSUME NEW i \in DOMAIN bots
      PROVE  bots[i].uuid \in 1 .. bot_uuids /\ bots[i].config \in Configs
  <2> DEFINE S == [uuid : 1 .. bot_uuids, config : Configs]
  <2>1. bots \in Seq(S)
    BY DEF TilesInv
  <2>2. \A bot \in S : bot.uuid \in 1 .. bot_uuids /\ bot.config \in Configs
    OBVIOUS
  <2> HIDE DEF S
  <2> QED
    BY <2>1, <2>2
<1> QED
  BY <1>1 DEF TilesInv, Tiles!TypeOK

LEMMA BotsUnique == TilesInv => Tiles!BotsAreUnique
<1> SUFFICES ASSUME TilesInv PROVE Tiles!BotsAreUnique
  OBVIOUS
<1> DEFINE f == [i \in DOMAIN bots |-> bots[i].uuid]
           U == {bots[i].uuid : i \in DOMAIN bots}
<1>1. DOMAIN bots = 1 .. Len(bots) /\ Len(bots) \in Nat
  BY DEF TilesInv
<1>2. IsFiniteSet(DOMAIN bots) /\ Cardinality(DOMAIN bots) = Len(bots)
  <2>1. 1 \in Int /\ Len(bots) \in Int
    BY <1>1
  <2>2. /\ IsFiniteSet(1 .. Len(bots))
        /\ Cardinality(1 .. Len(bots)) = IF 1 > Len(bots) THEN 0 ELSE Len(bots) - 1 + 1
    BY <2>1, FS_Interval
  <2> QED
    BY <1>1, <2>2
<1>3. f \in Surjection(DOMAIN bots, U)
  BY DEF Surjection
<1>4. f \in Injection(DOMAIN bots, U)
  <2>1. \A i, k \in DOMAIN bots : f[i] = f[k] => i = k
    BY DEF TilesInv
  <2> QED
    BY <2>1 DEF Injection, IsInjective
<1> HIDE DEF f, U
<1>6. Cardinality(U) = Len(bots)
  BY <1>2, <1>3, <1>4, FS_Surjection
<1>5. Tiles!Cardinality(U) = Cardinality(U)
  BY Zenon DEF Cardinality, Tiles!Cardinality
<1> QED
  BY <1>5, <1>6 DEF U, Tiles!BotsAreUnique

\* The uuids in the store after a step are old ones or the next.
LEMMA UuidsChange ==
  ASSUME TilesInv, BotsAdded \/ BotsKept \/ BotDeleted,
         NEW k \in DOMAIN bots'
  PROVE  bots'[k].uuid = bot_uuids + 1 \/ \E i \in DOMAIN bots : bots'[k].uuid = bots[i].uuid
<1>0. DOMAIN bots = 1 .. Len(bots) /\ Len(bots) \in Nat
  BY DEF TilesInv
<1>1. bots' \in Seq([uuid : 1 .. bot_uuids', config : Configs])
  BY BotsNext
<1>2. DOMAIN bots' = 1 .. Len(bots')
  BY <1>1, LenProperties
<1>3. CASE BotsAdded
  <2>1. PICK c : bots' = Append(bots, Tiles!Bot(bot_uuids + 1, c))
    BY <1>3 DEF BotsAdded
  <2>2. Tiles!Bot(bot_uuids + 1, c).uuid = bot_uuids + 1
    BY DEF Tiles!Bot
  <2> QED
    BY <1>0, <1>2, <2>1, <2>2
<1>4. CASE BotsKept
  BY <1>0, <1>2, <1>4 DEF BotsKept
<1>5. CASE BotDeleted
  <2> PICK i \in DOMAIN bots :
         /\ Len(bots') = Len(bots) - 1
         /\ \A l \in 1 .. Len(bots) - 1 : bots'[l] = bots[IF l < i THEN l ELSE l + 1]
    BY <1>5 DEF BotDeleted
  <2> DEFINE old == IF k < i THEN k ELSE k + 1
  <2>1. bots'[k] = bots[old]
    BY <1>2
  <2>2. old \in DOMAIN bots
    BY <1>0, <1>2
  <2> QED
    BY <2>1, <2>2
<1> QED
  BY <1>3, <1>4, <1>5

LEMMA DeletedStayAway == TilesInv /\ Tiles!Next => Tiles!DeletedBotsStayAway
<1> SUFFICES ASSUME TilesInv, Tiles!Next, NEW uuid \in 1 .. bot_uuids, Tiles!Places(uuid) = {}
             PROVE  Tiles!Places(uuid)' = {}
  BY DEF Tiles!DeletedBotsStayAway
<1>1. BotsAdded \/ BotsKept \/ BotDeleted
  BY TilesChange
<1>2. \A i \in DOMAIN bots : bots[i].uuid # uuid
  BY DEF Tiles!Places
<1>3. bot_uuids \in Nat
  BY DEF TilesInv
<1>4. \A k \in DOMAIN bots' : bots'[k].uuid # uuid
  BY <1>1, <1>2, <1>3, UuidsChange
<1> QED
  BY <1>4 DEF Tiles!Places

\* A tile edits the bot it was opened for.
TilesFollow ==
    \A i \in DOMAIN tiles : tiles[i].editing => tiles[i].of = bots[i].uuid

LEMMA TilesStay ==
  ASSUME TilesInv, TilesFollow, NEW newTiles, Tiles!Update(bots', newTiles),
         TilesInv', UNCHANGED bots_page,
         \A i \in DOMAIN bots : i \in DOMAIN bots' /\ bots'[i].uuid = bots[i].uuid,
         DOMAIN newTiles = DOMAIN tiles,
         \A i \in DOMAIN tiles : newTiles[i] = tiles[i] \/ newTiles[i] = Tiles!Showing
  PROVE  TilesFollow'
<1>1. \A tile : tile = Tiles!Showing => ~tile.editing
  BY DEF Tiles!Showing
<1>2. ASSUME NEW i \in DOMAIN tiles' PROVE tiles'[i] = IF i \in DOMAIN tiles THEN newTiles[i] ELSE Tiles!Showing
  BY DEF Tiles!Update, Tiles!Rendered
<1>3. DOMAIN tiles \subseteq DOMAIN bots
  BY DEF TilesInv
<1> QED
  BY <1>1, <1>2, <1>3 DEF TilesFollow

LEMMA AdditionsLeave == TilesInv /\ Tiles!Next => Tiles!AdditionsLeaveTilesAlone
<1> SUFFICES ASSUME TilesInv, Tiles!Next, TilesFollow,
                    \A uuid \in 1 .. bot_uuids : Tiles!Places(uuid) # {} => Tiles!Places(uuid)' # {}
             PROVE  TilesFollow'
  BY DEF TilesFollow, Tiles!AdditionsLeaveTilesAlone
<1>0. TilesInv' /\ DOMAIN tiles \subseteq DOMAIN bots /\ DOMAIN bots = 1 .. Len(bots) /\ Len(bots) \in Nat
  BY TilesNext DEF TilesInv
<1>1. ~\E i \in DOMAIN tiles : Tiles!Delete(i)
  <2> SUFFICES ASSUME NEW i \in DOMAIN tiles, Tiles!Delete(i) PROVE FALSE
    OBVIOUS
  <2>1. i \in DOMAIN bots /\ \A k \in DOMAIN bots' : bots'[k].uuid # bots[i].uuid
    BY BotRemoved
  <2>2. bots[i].uuid \in 1 .. bot_uuids
    BY <2>1, TilesTyped DEF Tiles!TypeOK
  <2>3. PICK uuid \in 1 .. bot_uuids : uuid = bots[i].uuid
    BY <2>2
  <2>4. Tiles!Places(uuid) # {}
    BY <2>1, <2>3, BotPlaces
  <2>5. Tiles!Places(uuid)' # {}
    BY <2>4
  <2> QED
    BY <2>1, <2>3, <2>5 DEF Tiles!Places
<1>2. /\ \A tile : tile = Tiles!Showing => ~tile.editing
      /\ \A tile, text, typed, of : tile = Tiles!Editing(text, typed, of) => tile.of = of
  BY DEF Tiles!Showing, Tiles!Editing
<1>3. ASSUME BotsAdded \/ BotsKept, NEW i \in DOMAIN bots
      PROVE  i \in DOMAIN bots' /\ bots'[i].uuid = bots[i].uuid
  <2>1. DOMAIN bots' = 1 .. Len(bots') /\ Len(bots') \in Nat
    BY <1>0, LenProperties DEF TilesInv
  <2>2. CASE BotsAdded
    <3> PICK c : bots' = Append(bots, Tiles!Bot(bot_uuids + 1, c))
      BY <2>2 DEF BotsAdded
    <3> QED
      BY <1>0, <2>1
  <2>3. CASE BotsKept
    BY <1>0, <2>1, <2>3 DEF BotsKept
  <2> QED
    BY <1>3, <2>2, <2>3
<1>4. \A i \in DOMAIN bots : i \in DOMAIN bots' /\ bots'[i].uuid = bots[i].uuid
  BY <1>1, <1>3, TilesChange
<1>5. ASSUME Tiles!OpenPage PROVE TilesFollow'
  BY <1>2, <1>5 DEF Tiles!OpenPage, Tiles!Rendered, TilesFollow
<1>6. ASSUME Tiles!LeavePage PROVE TilesFollow'
  BY <1>6 DEF Tiles!LeavePage, TilesFollow
<1>7. ASSUME Tiles!Add \/ Tiles!ResetAdded \/ Tiles!DeleteAdded PROVE TilesFollow'
  BY <1>7 DEF Tiles!Add, Tiles!ResetAdded, Tiles!DeleteAdded, TilesFollow
<1>8. ASSUME Tiles!SaveAdded \/ \E c \in Configs : Tiles!PopulateBots(c) PROVE TilesFollow'
  <2>1. Tiles!Update(bots', tiles) /\ UNCHANGED bots_page
    BY <1>8 DEF Tiles!SaveAdded, Tiles!PopulateBots, Tiles!Update
  <2> QED
    BY <1>0, <1>4, <2>1, TilesStay
<1>9. ASSUME NEW text \in Texts, Tiles!ChangeAdded(text) PROVE TilesFollow'
  BY <1>9 DEF Tiles!ChangeAdded, TilesFollow
<1>10. ASSUME NEW i \in DOMAIN tiles, Tiles!Edit(i) \/ Tiles!Reset(i) PROVE TilesFollow'
  <2>1. /\ UNCHANGED bots
        /\ tiles' = [tiles EXCEPT ![i] = Tiles!Editing(bots[i].config, FALSE, bots[i].uuid)]
    BY <1>10 DEF Tiles!Edit, Tiles!Reset
  <2>2. \A k \in DOMAIN tiles' : tiles'[k] = tiles[k] \/ (k = i /\ tiles'[i].of = bots[i].uuid)
    BY <1>2, <2>1
  <2> QED
    BY <2>1, <2>2 DEF TilesFollow
<1>11. ASSUME NEW i \in DOMAIN tiles, NEW text \in Texts, Tiles!Change(i, text) PROVE TilesFollow'
  <2>1. /\ UNCHANGED bots /\ tiles[i].editing
        /\ tiles' = [tiles EXCEPT ![i] = Tiles!Editing(text, TRUE, tiles[i].of)]
    BY <1>11 DEF Tiles!Change
  <2>2. tiles[i].of = bots[i].uuid
    BY <2>1 DEF TilesFollow
  <2> QED
    BY <1>2, <2>1, <2>2 DEF TilesFollow
<1>12. ASSUME NEW i \in DOMAIN tiles, Tiles!Save(i) PROVE TilesFollow'
  <2> DEFINE new == [tiles EXCEPT ![i] = Tiles!Showing]
  <2>1. Tiles!Update(bots', new) /\ UNCHANGED bots_page
    BY <1>12 DEF Tiles!Save, Tiles!Update
  <2>2. /\ DOMAIN new = DOMAIN tiles
        /\ \A k \in DOMAIN tiles : new[k] = tiles[k] \/ new[k] = Tiles!Showing
    OBVIOUS
  <2> HIDE DEF new
  <2> QED
    BY <1>0, <1>4, <2>1, <2>2, TilesStay
<1> QED
  BY <1>1, <1>5, <1>6, <1>7, <1>8, <1>9, <1>10, <1>11, <1>12 DEF Tiles!Next, Texts
-----------------------------------------------------------------------------
(* The choice of a map *)

\* What the store can have of a map.
Records == {[uuid |-> u, slots |-> Picker!Slots(c)] : u \in 1 .. MaxMaps, c \in Contents}

\* Every map that is filed, or is about to be, has its file; a file that is
\* read is that of the map at its place.
PickerInv ==
    /\ map_uuids \in 0 .. MaxMaps
    /\ DOMAIN disk = 1 .. MaxMaps
    /\ \A u \in 1 .. map_uuids : disk[u] \in Contents
    /\ maps \in Seq(Records) /\ \A i \in DOMAIN maps : maps[i].uuid \in 1 .. map_uuids
    /\ imports \subseteq Records /\ \A map \in imports : map.uuid \in 1 .. map_uuids
    /\ host_page \in {"away", "open"}
    /\ DOMAIN previews = 1 .. Len(previews)
    /\ Len(previews) = IF host_page = "open" THEN Len(maps) ELSE 0
    /\ \A i \in DOMAIN previews : previews[i] # NoMap => previews[i] = disk[maps[i].uuid]
    /\ \A read \in reading :
         read.place \in DOMAIN previews /\ read.uuid = maps[read.place].uuid
    /\ form \in Picker!Forms
    /\ config # NoMap => config = form
    /\ atOpening =>
         /\ host_page = "open" /\ config # NoMap
         /\ \E i \in DOMAIN maps : maps[i].uuid = form.mapId

LEMMA PickerAssumed ==
  /\ Default \in Fields /\ MaxMaps \in Nat
  /\ NoMap \notin Contents /\ NoMap \notin Picker!Forms /\ Invalid \notin Contents
BY AppAssumption DEF AppAssumption, Picker!PickerAssumption

LEMMA NewFormTyped == Picker!NewForm \in Picker!Forms
BY PickerAssumed DEF Picker!NewForm, Picker!Forms

LEMMA FormSelected ==
  ASSUME NEW f \in Picker!Forms, NEW id \in 1 .. MaxMaps
  PROVE  [f EXCEPT !.mapId = id] \in Picker!Forms /\ [f EXCEPT !.mapId = id].mapId = id
BY DEF Picker!Forms, Picker!Uuids

LEMMA FormSet ==
  ASSUME NEW f \in Picker!Forms, NEW value \in Fields
  PROVE  /\ [f EXCEPT !.rest = value] \in Picker!Forms
         /\ [f EXCEPT !.rest = value].mapId = f.mapId
BY DEF Picker!Forms, Picker!Uuids

LEMMA MapFacts ==
  ASSUME PickerInv
  PROVE  /\ DOMAIN maps = 1 .. Len(maps) /\ Len(maps) \in Nat
         /\ \A i \in DOMAIN maps : maps[i].uuid \in 1 .. map_uuids
         /\ \A i \in DOMAIN maps : maps[i].uuid \in 1 .. MaxMaps /\ disk[maps[i].uuid] \in Contents
         /\ host_page = "open" => DOMAIN previews = DOMAIN maps
         /\ host_page = "away" => DOMAIN previews = {}
<1>1. DOMAIN maps = 1 .. Len(maps) /\ Len(maps) \in Nat
  BY LenProperties DEF PickerInv
<1>2. \A u \in 1 .. map_uuids : u \in 1 .. MaxMaps /\ disk[u] \in Contents
  BY PickerAssumed DEF PickerInv
<1> QED
  BY <1>1, <1>2 DEF PickerInv

LEMMA PickerInit == Picker!Init => PickerInv
<1> SUFFICES ASSUME Picker!Init PROVE PickerInv
  OBVIOUS
<1>1. /\ map_uuids = 0 /\ maps = <<>> /\ imports = {} /\ host_page = "away"
      /\ DOMAIN disk = 1 .. MaxMaps /\ form = Picker!NewForm /\ config = NoMap
      /\ previews = <<>> /\ reading = {} /\ atOpening = FALSE
  BY DEF Picker!Init, Picker!Uuids
<1> QED
  BY <1>1, NewFormTyped, PickerAssumed DEF PickerInv

LEMMA PickerTyped == PickerInv => Picker!TypeOK
BY MapFacts DEF PickerInv, Picker!TypeOK

LEMMA PickerShows == PickerInv => Picker!PreviewsShowTheirMap /\ Picker!LobbyGetsTheForm
<1> SUFFICES ASSUME PickerInv
             PROVE  Picker!PreviewsShowTheirMap /\ Picker!LobbyGetsTheForm
  OBVIOUS
<1>1. Picker!PreviewsShowTheirMap
  BY MapFacts DEF PickerInv, Picker!PreviewsShowTheirMap
<1>2. ASSUME atOpening
      PROVE  \E i \in DOMAIN previews : Picker!Drawn(i).ticked /\ maps[i].uuid = config.mapId
  <2>1. PICK i \in DOMAIN maps : maps[i].uuid = form.mapId
    BY <1>2 DEF PickerInv
  <2>2. i \in DOMAIN previews /\ config.mapId = form.mapId
    BY <1>2, MapFacts DEF PickerInv
  <2> QED
    BY <2>1, <2>2 DEF Picker!Drawn
<1> QED
  BY <1>1, <1>2 DEF PickerInv, Picker!LobbyGetsTheForm

LEMMA PickerImports ==
  ASSUME PickerInv, NEW c \in Contents \union {Invalid}, Picker!ImportMapFromFile(c)
  PROVE  PickerInv'
<1>1. /\ map_uuids < MaxMaps /\ c \in Contents /\ map_uuids' = map_uuids + 1
      /\ disk' = [disk EXCEPT ![map_uuids + 1] = c]
      /\ imports' = imports \union {[uuid |-> map_uuids + 1, slots |-> Picker!Slots(c)]}
      /\ UNCHANGED <<maps, host_page, form, config, previews, reading, atOpening>>
  BY DEF Picker!ImportMapFromFile, Picker!isGameMap, Picker!Written, Picker!pageVars
<1>2. map_uuids \in Nat /\ map_uuids + 1 \in 1 .. MaxMaps
  BY <1>1, PickerAssumed DEF PickerInv
<1>3. /\ DOMAIN disk' = 1 .. MaxMaps
      /\ \A u \in 1 .. map_uuids : disk'[u] = disk[u]
      /\ disk'[map_uuids + 1] = c
  BY <1>1, <1>2 DEF PickerInv
<1>4. \A u \in 1 .. map_uuids' : disk'[u] \in Contents
  BY <1>1, <1>2, <1>3 DEF PickerInv
<1>5. imports' \subseteq Records /\ \A map \in imports' : map.uuid \in 1 .. map_uuids'
  BY <1>1, <1>2 DEF PickerInv, Records
<1>6. \A i \in DOMAIN maps : maps[i].uuid \in 1 .. map_uuids' /\ disk'[maps[i].uuid] = disk[maps[i].uuid]
  BY <1>1, <1>2, <1>3, MapFacts
<1>7. DOMAIN previews \subseteq DOMAIN maps
  BY MapFacts DEF PickerInv
<1>8. map_uuids' \in 0 .. MaxMaps
  BY <1>1, <1>2
<1> QED
  BY <1>1, <1>3, <1>4, <1>5, <1>6, <1>7, <1>8 DEF PickerInv

LEMMA PickerFiles ==
  ASSUME PickerInv, NEW map \in imports, Picker!FileMap(map)
  PROVE  PickerInv'
<1> DEFINE n == Len(maps)
<1>0. n \in Nat /\ DOMAIN maps = 1 .. n /\ map \in Records /\ map.uuid \in 1 .. map_uuids
  BY MapFacts DEF PickerInv
<1>1. /\ imports' = imports \ {map} /\ maps' = Append(maps, map)
      /\ IF host_page = "open"
         THEN /\ previews' = Append(previews, NoMap)
              /\ reading' = reading \union Picker!Mounted(Len(previews)) \union Picker!Replaced
         ELSE UNCHANGED <<previews, reading>>
      /\ UNCHANGED <<disk, map_uuids, host_page, form, config, atOpening>>
  BY DEF Picker!FileMap, Picker!Filed
<1>2. /\ maps' \in Seq(Records) /\ Len(maps') = n + 1 /\ DOMAIN maps' = 1 .. n + 1
      /\ \A i \in 1 .. n : maps'[i] = maps[i]
      /\ maps'[n + 1] = map
  <2>1. /\ maps' \in Seq(Records) /\ Len(maps') = n + 1
        /\ \A i \in 1 .. n : maps'[i] = maps[i]
        /\ maps'[n + 1] = map
    BY <1>0, <1>1, AppendProperties DEF PickerInv
  <2> QED
    BY <2>1, LenProperties
<1> HIDE DEF n
<1>3. \A i \in DOMAIN maps' : maps'[i].uuid \in 1 .. map_uuids
  BY <1>0, <1>2 DEF PickerInv
<1>4. /\ DOMAIN previews' = 1 .. Len(previews')
      /\ Len(previews') = IF host_page = "open" THEN Len(maps') ELSE 0
      /\ \A i \in DOMAIN previews' : previews'[i] # NoMap => previews'[i] = disk[maps'[i].uuid]
      /\ \A read \in reading' :
           read.place \in DOMAIN previews' /\ read.uuid = maps'[read.place].uuid
  <2>1. CASE host_page = "open"
    <3>1. DOMAIN previews = 1 .. n /\ Len(previews) = n
      BY <1>0, <2>1, MapFacts DEF PickerInv, n
    <3>2. /\ DOMAIN previews' = 1 .. n + 1 /\ Len(previews') = n + 1
          /\ \A i \in 1 .. n : previews'[i] = previews[i]
          /\ previews'[n + 1] = NoMap
      BY <1>0, <1>1, <2>1, <3>1
    <3>3. \A i \in 1 .. n : previews[i] # NoMap => previews[i] = disk[maps[i].uuid]
      BY <3>1 DEF PickerInv
    <3>4. Picker!Replaced = {}
      BY <1>2, <3>1 DEF Picker!Replaced
    <3>5. \A read \in Picker!Mounted(n) : read.place = n + 1 /\ read.uuid = maps'[n + 1].uuid
      BY <1>0, <1>2 DEF Picker!Mounted
    <3>6. \A read \in reading : read.place \in 1 .. n /\ read.uuid = maps[read.place].uuid
      BY <3>1 DEF PickerInv
    <3>7. \A read \in reading' :
             read.place \in 1 .. n + 1 /\ read.uuid = maps'[read.place].uuid
      BY <1>0, <1>1, <1>2, <2>1, <3>1, <3>4, <3>5, <3>6
    <3> QED
      BY <1>0, <1>2, <2>1, <3>2, <3>3, <3>7
  <2>2. CASE host_page # "open"
    BY <1>1, <2>2 DEF PickerInv
  <2> QED
    BY <2>1, <2>2
<1>5. imports' \subseteq Records /\ \A m \in imports' : m.uuid \in 1 .. map_uuids
  BY <1>1 DEF PickerInv
<1>6. \A i \in DOMAIN maps : i \in DOMAIN maps' /\ maps'[i] = maps[i]
  BY <1>0, <1>2
<1> QED
  BY <1>1, <1>2, <1>3, <1>4, <1>5, <1>6 DEF PickerInv

LEMMA PickerOpens == PickerInv /\ Picker!OpenPage => PickerInv'
<1> SUFFICES ASSUME PickerInv, Picker!OpenPage PROVE PickerInv'
  OBVIOUS
<1>1. /\ host_page' = "open"
      /\ form' = [Picker!NewForm EXCEPT !.mapId = IF maps = <<>> THEN NoMap ELSE maps[1].uuid]
      /\ config' = IF maps = <<>> THEN NoMap ELSE form'
      /\ previews' = [i \in DOMAIN maps |-> NoMap]
      /\ reading' = {[place |-> i, uuid |-> maps[i].uuid] : i \in DOMAIN maps}
      /\ atOpening' = (maps # <<>>)
      /\ UNCHANGED <<maps, disk, imports, map_uuids>>
  BY DEF Picker!OpenPage, Picker!mapVars
<1>2. Len(previews') = Len(maps) /\ DOMAIN previews' = 1 .. Len(previews')
  BY <1>1, MapFacts
<1>3. maps # <<>> => 1 \in DOMAIN maps /\ maps[1].uuid \in 1 .. MaxMaps
  BY MapFacts DEF PickerInv
<1>4. form' \in Picker!Forms /\ (maps # <<>> => form'.mapId = maps[1].uuid)
  <2>1. CASE maps = <<>>
    <3>1. form' = Picker!NewForm
      BY <1>1, <2>1 DEF Picker!NewForm
    <3> QED BY <2>1, <3>1, NewFormTyped
  <2>2. CASE maps # <<>>
    <3>1. form' = [Picker!NewForm EXCEPT !.mapId = maps[1].uuid]
      BY <1>1, <2>2
    <3> QED
      BY <1>3, <2>2, <3>1, NewFormTyped, FormSelected
  <2> QED BY <2>1, <2>2
<1>5. /\ \A i \in DOMAIN previews' : previews'[i] = NoMap
      /\ \A read \in reading' : read.place \in DOMAIN previews' /\ read.uuid = maps[read.place].uuid
  BY <1>1
<1>6. config' # NoMap => config' = form'
  BY <1>1
<1>7. atOpening' => config' # NoMap /\ \E i \in DOMAIN maps : maps[i].uuid = form'.mapId
  BY <1>1, <1>3, <1>4, PickerAssumed
<1> QED
  BY <1>1, <1>2, <1>4, <1>5, <1>6, <1>7 DEF PickerInv

LEMMA PickerActs ==
  ASSUME PickerInv,
         \/ Picker!LeavePage \/ \E i \in DOMAIN maps : Picker!SelectMap(i)
         \/ \E value \in Fields : Picker!SetField(value)
  PROVE  PickerInv'
<1>1. ASSUME Picker!LeavePage PROVE PickerInv'
  <2>1. /\ host_page' = "away" /\ form' = Picker!NewForm /\ config' = NoMap
        /\ previews' = <<>> /\ reading' = {} /\ atOpening' = FALSE
        /\ UNCHANGED <<maps, disk, imports, map_uuids>>
    BY <1>1 DEF Picker!LeavePage, Picker!mapVars
  <2> QED
    BY <2>1, NewFormTyped DEF PickerInv
<1>2. ASSUME NEW i \in DOMAIN maps, Picker!SelectMap(i) PROVE PickerInv'
  <2>1. /\ host_page = "open" /\ form' = [form EXCEPT !.mapId = maps[i].uuid] /\ config' = form'
        /\ UNCHANGED <<maps, disk, imports, map_uuids, host_page, previews, reading, atOpening>>
    BY <1>2 DEF Picker!SelectMap, Picker!CallBack, Picker!mapVars
  <2>2. form' \in Picker!Forms /\ form'.mapId = maps[i].uuid
    <3>1. form \in Picker!Forms /\ maps[i].uuid \in 1 .. MaxMaps
      BY MapFacts DEF PickerInv
    <3> QED
      BY <2>1, <3>1, FormSelected
  <2> QED
    BY <2>1, <2>2, PickerAssumed DEF PickerInv
<1>3. ASSUME NEW value \in Fields, Picker!SetField(value) PROVE PickerInv'
  <2>1. /\ form' = [form EXCEPT !.rest = value] /\ config' = form'
        /\ UNCHANGED <<maps, disk, imports, map_uuids, host_page, previews, reading, atOpening>>
    BY <1>3 DEF Picker!SetField, Picker!CallBack, Picker!mapVars
  <2>2. form' \in Picker!Forms /\ form'.mapId = form.mapId
    <3>1. form \in Picker!Forms
      BY DEF PickerInv
    <3> QED
      BY <2>1, <3>1, FormSet
  <2> QED
    BY <2>1, <2>2, PickerAssumed DEF PickerInv
<1> QED
  BY <1>1, <1>2, <1>3

LEMMA PickerReads ==
  ASSUME PickerInv, NEW read \in reading, Picker!ReadFile(read)
  PROVE  PickerInv'
<1>1. /\ reading' = reading \ {read}
      /\ previews' = [previews EXCEPT ![read.place] =
                        IF disk[read.uuid] = NoMap \/ ~Picker!isGameMap(disk[read.uuid])
                        THEN Invalid ELSE disk[read.uuid]]
      /\ UNCHANGED <<maps, disk, imports, map_uuids, host_page, form, config, atOpening>>
  BY DEF Picker!ReadFile, Picker!mapVars
<1>2. read.place \in DOMAIN previews /\ read.uuid = maps[read.place].uuid /\ DOMAIN previews \subseteq DOMAIN maps
  BY MapFacts DEF PickerInv
<1>3. disk[read.uuid] # NoMap /\ Picker!isGameMap(disk[read.uuid])
  BY <1>2, MapFacts, PickerAssumed DEF Picker!isGameMap
<1>4. previews' = [previews EXCEPT ![read.place] = disk[maps[read.place].uuid]]
  BY <1>1, <1>2, <1>3
<1>5. DOMAIN previews' = DOMAIN previews /\ Len(previews') = Len(previews)
  BY <1>4 DEF PickerInv
<1>6. \A i \in DOMAIN previews : previews'[i] # NoMap => previews'[i] = disk[maps[i].uuid]
  BY <1>4 DEF PickerInv
<1> QED
  BY <1>1, <1>5, <1>6 DEF PickerInv

LEMMA PickerNext == PickerInv /\ (Picker!Next \/ UNCHANGED picker) => PickerInv'
<1>1. PickerInv /\ Picker!Next => PickerInv'
  BY PickerImports, PickerFiles, PickerOpens, PickerActs, PickerReads DEF Picker!Next
<1>2. PickerInv /\ UNCHANGED picker => PickerInv'
  BY DEF PickerInv, picker
<1> QED
  BY <1>1, <1>2
-----------------------------------------------------------------------------
(* The run *)

\* Whichever part runs, it keeps its invariant.
Kept ==
    /\ part \in {"hosted", "joined", "migration", "view", "list", "tiles", "picker"}
    /\ Recording => IInv
    /\ part = "migration" => MigrationInv
    /\ part = "view"      => ViewInv
    /\ part = "list"      => ListInv
    /\ part = "tiles"     => TilesInv
    /\ part = "picker"    => PickerInv

LEMMA KeptInit == AppInit => Kept
<1>1. RecordsAssumption
  BY AppAssumption DEF AppAssumption
<1>2. AppInit => /\ Old!Init /\ View!Init /\ List!Init /\ Tiles!Init /\ Picker!Init
                 /\ Init
                 /\ part \in {"hosted", "joined", "migration", "view", "list", "tiles", "picker"}
  BY DEF AppInit
<1> QED
  BY <1>1, <1>2, AppAssumption, InitInv, MigrationInit, ViewInit, ListInit, TilesInit, PickerInit
     DEF Kept, Recording

\* A step is one of the part that runs.
LEMMA PartNext ==
  ASSUME [AppNext]_appVars
  PROVE  /\ part' = part
         /\ Recording => [Next]_vars
         /\ part = "migration" => Old!Next \/ UNCHANGED migration
         /\ part = "view"      => View!Next \/ UNCHANGED view
         /\ part = "list"      => List!Next \/ UNCHANGED list
         /\ part = "tiles"     => Tiles!Next \/ UNCHANGED botTiles
         /\ part = "picker"    => Picker!Next \/ UNCHANGED picker
BY DEF AppNext, appVars, Recording

LEMMA KeptNext == Kept /\ [AppNext]_appVars => Kept'
<1> SUFFICES ASSUME Kept, [AppNext]_appVars
             PROVE  Kept'
  OBVIOUS
<1>1. part' = part
  BY PartNext
<1>2. CASE Recording
  BY <1>1, <1>2, PartNext, NextInv DEF Kept, Recording
<1>4. CASE part = "migration"
  BY <1>1, <1>4, PartNext, MigrationNext DEF Kept, Recording
<1>5. CASE part = "view"
  BY <1>1, <1>5, PartNext, ViewNext DEF Kept, Recording
<1>6. CASE part = "list"
  BY <1>1, <1>6, PartNext, ListNext DEF Kept, Recording
<1>7. CASE part = "tiles"
  BY <1>1, <1>7, PartNext, TilesNext DEF Kept, Recording
<1>8. CASE part = "picker"
  BY <1>1, <1>8, PartNext, PickerNext DEF Kept, Recording
<1> QED
  BY <1>2, <1>4, <1>5, <1>6, <1>7, <1>8 DEF Kept, Recording

LEMMA AppInvariance == AppSpec => []Kept
BY KeptInit, KeptNext, PTL DEF AppSpec

\* The types of all parts, whatever matches, bots, maps and lineups there are.
THEOREM AppTypeCorrect == AppSpec => []AppTypeOK
<1>1. IInv => TypeOK
  BY TypesFromInv
<1>2. Kept => AppTypeOK
  BY <1>1, MigrationTyped, ViewTyped, TilesTyped, PickerTyped DEF Kept, Recording, AppTypeOK
<1> QED
  BY <1>2, AppInvariance, PTL

\* Once the writes under way are done the database holds what the store holds,
\* whatever was finished has its log, and the migration of an older database
\* loses nothing, wherever the app was killed (Database.ts, matches.ts,
\* migrate.ts).
THEOREM RecordsAreKept == AppSpec => []DatabaseKeepsTheStore
<1>1. IInv => DatabaseFollowsStore /\ FinishedMatchesHaveLogs
  BY FollowsFromInv, LogsFromInv
<1>2. Kept => DatabaseKeepsTheStore
  BY <1>1, MigrationKeeps DEF Kept, Recording, DatabaseKeepsTheStore
<1> QED
  BY <1>2, AppInvariance, PTL

\* The pages show what the store holds: the view the whole log of its match,
\* in whatever order entries, files and the user come; the list each match
\* once, newest first, its players by their outcome and under their own names,
\* for any number of matches and players; the page of bots each bot once, and
\* the page of the host under each map the picture of that map (MatchView.tsx,
\* Matches.tsx, Bots.tsx, Config.tsx, MapPreview.tsx).
THEOREM PagesAreTrue == AppSpec => []PagesShowTheStore
<1>1. Kept => PagesShowTheStore
  BY ViewShows, ListNewestFirst, ListRanked, ListNames, BotsUnique, PickerShows
     DEF Kept, Recording, PagesShowTheStore
<1> QED
  BY <1>1, AppInvariance, PTL

\* No step takes back what is done: an outcome is announced and final, a dbSync
\* writes nothing, and a removed bot stays away; a tile goes on editing
\* its bot while others are added, and the page of matches goes down on empty
\* logs only (matches.ts, Database.ts, bots.ts, Bots.tsx, MatchView.tsx).
THEOREM DoneStaysDone == AppSpec => WhatIsDoneStaysDone
<1>1. Kept /\ [AppNext]_appVars =>
        [Recording =>
            /\ OutcomesAreFinal
            /\ EndsAreAnnounced
            /\ OnlyChangesAreWritten
            /\ RemovedBotsStayAway]_vars
  BY PartNext, NextOutcomes, NextEnds, NextWrites, NextBots DEF Kept, Recording
<1>2. Kept /\ [AppNext]_appVars =>
        [part = "tiles" => /\ Tiles!DeletedBotsStayAway
                           /\ Tiles!AdditionsLeaveTilesAlone]_botTiles
  BY PartNext, DeletedStayAway, AdditionsLeave DEF Kept, Recording
<1>3. Kept /\ [AppNext]_appVars =>
        [part = "view" => View!CrashesOnEmptyFilesOnly]_view
  BY PartNext, ViewCrashes DEF Kept, Recording
<1> QED
  BY <1>1, <1>2, <1>3, AppInvariance, PTL DEF AppSpec, WhatIsDoneStaysDone
=============================================================================
