--------------------------- MODULE IdempotencyProofs ---------------------------
(***************************************************************************)
(* The inductive invariant of Idempotency, for any accounts, keys, bodies, *)
(* requests, timeout and retention, its steps, and the theorems.           *)
(*                                                                         *)
(* None of the safety properties is inductive alone.  IInv adds what ties  *)
(* a request to the row it inserted while its key is held (Owned,          *)
(* CommittedOwns) and what ties a stored answer to the run it came from    *)
(* (AnswersCommitted, AnswersMatch).                                       *)
(***************************************************************************)
EXTENDS Idempotency, TLAPS

Claiming == {"insert", "raced", "restart"}

\* A request that has not arrived has no attempt, and one that has no claim
\* has done nothing and has been told nothing.
Arrived ==
    \A r \in Requests :
        /\ pc[r] = "idle" => slot[r] = None
        /\ pc[r] \in Claiming \cup {"idle"} => r \notin committed /\ reply[r] = "none"

\* A request at work on a key has an attempt, and so has one that was given
\* a stored answer.
Attempting ==
    \A r \in Requests :
        /\ pc[r] \notin {"idle", "done"} => slot[r] \in Slots /\ hash[r] \in Bodies
        /\ reply[r] = "replay" => slot[r] \in Slots

\* A request about to store its answer has committed its route.
StoresAfterCommit ==
    \A r \in Requests : pc[r] \in {"remember", "complete"} => r \in committed

\* While a key is held, the request at work on it owns its row.
Owned ==
    \A r \in Requests :
        pc[r] \in Holding /\ Held(slot[r]) =>
            Mine(r).id = r /\ Mine(r).request_hash = hash[r]

\* While a key is held, a committed run under it still owns its row.
CommittedOwns ==
    \A r \in committed :
        slot[r] \in Slots /\ Held(slot[r]) => Mine(r).id = r

\* A stored answer comes from a committed run of the same account and key.
AnswersCommitted ==
    \A s \in Slots :
        keys[s].answer # None =>
            keys[s].answer \in committed /\ slot[keys[s].answer] = s

\* While a key is held, its stored answer describes the body of its row.
AnswersMatch ==
    \A s \in Slots :
        Held(s) /\ keys[s].answer # None =>
            hash[keys[s].answer] = keys[s].request_hash

IInv ==
    /\ TypeOK
    /\ Arrived
    /\ Attempting
    /\ StoresAfterCommit
    /\ Owned
    /\ CommittedOwns
    /\ AnswersCommitted
    /\ AnswersMatch
    /\ ReplayIsCommitted
    /\ ReplayMatchesWhileHeld

\* What most steps use of TypeOK.
Types ==
    /\ keys \in [Slots -> Row]
    /\ pc \in [Requests -> Pcs]
    /\ slot \in [Requests -> Slots \cup {None}]
    /\ hash \in [Requests -> Bodies \cup {None}]
    /\ reply \in [Requests -> Replies]
    /\ replayed \in [Requests -> Requests \cup {None}]
    /\ committed \in SUBSET Requests
    /\ givenUp \in [Slots -> SUBSET Causes]

USE DEF storeVars, requestVars, answerVars

\* What the empty row and the fields of a row are.
LEMMA RowFields ==
    /\ NoRow \in Row
    /\ \A row \in Row : /\ row.id \in Requests \cup {None}
                        /\ row.request_hash \in Bodies \cup {None}
                        /\ row.created_at \in Nat
                        /\ row.answer \in Requests \cup {None}
  BY DEF Row, NoRow

\* Initially no row exists and nobody has arrived.
LEMMA InitEstablishesIInv == Init => IInv
  <1> SUFFICES ASSUME Init PROVE IInv
    OBVIOUS
  <1>1. TypeOK
    BY RowFields DEF Init, TypeOK, Pcs, Replies
  <1>2. Arrived /\ Attempting /\ StoresAfterCommit /\ Owned /\ CommittedOwns
    BY DEF Init, Arrived, Attempting, StoresAfterCommit, Owned, CommittedOwns,
           Holding, Claiming
  <1>3. AnswersCommitted /\ AnswersMatch
    BY DEF Init, AnswersCommitted, AnswersMatch, NoRow
  <1>4. ReplayIsCommitted /\ ReplayMatchesWhileHeld
    BY DEF Init, ReplayIsCommitted, ReplayMatchesWhileHeld
  <1> QED BY <1>1, <1>2, <1>3, <1>4 DEF IInv

\* restart turns a row into a row.
LEMMA RetakenRow ==
    ASSUME NEW row \in Row, NEW loaded \in Row, NEW b \in Bodies, NEW now \in Nat
    PROVE  Retaken(row, loaded, b, now) \in Row
  <1>1. CASE b = loaded.request_hash
    BY <1>1, Zenon DEF Row, Retaken
  <1>2. CASE b # loaded.request_hash
    BY <1>2, Zenon DEF Row, Retaken
  <1> QED BY <1>1, <1>2

\* complete sets the answer and nothing else.
LEMMA FinishedRow ==
    ASSUME NEW row \in Row, NEW r \in Requests
    PROVE  /\ Finished(row, r) \in Row
           /\ Finished(row, r).id = row.id
           /\ Finished(row, r).request_hash = row.request_hash
           /\ Finished(row, r).answer = r
  BY DEF Row, Finished

\* A request that leaves keeps its locals in their types.
LEMMA LeaveType ==
    ASSUME TypeOK, NEW r \in Requests, Leave(r)
    PROVE  /\ pc' \in [Requests -> Pcs]
           /\ seen' \in [Requests -> Row]
           /\ started' \in [Requests -> Nat]
  BY RowFields DEF TypeOK, Leave, Goto, Pcs

\* _resolve writes only the locals and the answer of its request.
LEMMA ResolveType ==
    ASSUME TypeOK, NEW r \in Requests, NEW row \in Row, NEW b, Resolve(r, row, b)
    PROVE  /\ pc' \in [Requests -> Pcs]
           /\ seen' \in [Requests -> Row]
           /\ started' \in [Requests -> Nat]
           /\ reply' \in [Requests -> Replies]
           /\ replayed' \in [Requests -> Requests \cup {None}]
  <1>1. CASE Leave(r)
    BY <1>1, LeaveType, RowFields, Zenon DEF TypeOK, Resolve, Answer, Goto, Replies
  <1>2. CASE ~Leave(r)
    <2>1. /\ seen' = [seen EXCEPT ![r] = row]
          /\ started' = [started EXCEPT ![r] = clock]
          /\ pc' = [pc EXCEPT ![r] = "restart"]
          /\ UNCHANGED answerVars
      BY <1>2 DEF Resolve, Goto
    <2> QED BY <2>1 DEF TypeOK, Pcs
  <1> QED BY <1>1, <1>2

\* Every step keeps the variables in their types.
LEMMA TypeStep == TypeOK /\ Attempting /\ [Next]_vars => TypeOK'
  <1> SUFFICES ASSUME TypeOK, Attempting, [Next]_vars
               PROVE  TypeOK'
    OBVIOUS
  <1>1. ASSUME NEW r \in Requests, Arrive(r) PROVE TypeOK'
    <2>1. CASE Bypass(r) \/ RefuseEarly(r)
      BY <2>1 DEF TypeOK, Bypass, RefuseEarly, Goto, Answer, Pcs, Replies
    <2>2. ASSUME NEW s \in Slots, NEW b \in Bodies, Get(r, s, b) PROVE TypeOK'
      <3>1. CASE Resolve(r, keys[s], b)
        BY <2>2, <3>1, ResolveType DEF TypeOK, Get
      <3>2. CASE ~Resolve(r, keys[s], b)
        BY <2>2, <3>2 DEF TypeOK, Get, Goto, Pcs
      <3> QED BY <3>1, <3>2
    <2> QED BY <1>1, <2>1, <2>2 DEF Arrive
  <1>2. ASSUME NEW r \in Requests, Claim(r) PROVE TypeOK'
    <2>1. CASE Insert(r)
      <3>1. NewRow(r) \in Row
        BY <2>1 DEF TypeOK, Insert, NewRow, Row, Attempting
      <3>2. keys' \in [Slots -> Row]
        BY <2>1, <3>1 DEF TypeOK, Insert
      <3> QED BY <2>1, <3>2 DEF TypeOK, Insert, Goto, Pcs, Holding
    <2>2. CASE Raced(r)
      <3> slot[r] \in Slots /\ Mine(r) \in Row
        BY <2>2 DEF Raced, Attempting, Mine, TypeOK
      <3>1. CASE Resolve(r, Mine(r), hash[r])
        BY <2>2, <3>1, ResolveType DEF TypeOK, Raced
      <3>2. CASE ~Resolve(r, Mine(r), hash[r])
        BY <2>2, <3>2, LeaveType DEF TypeOK, Raced, Answer, Replies
      <3> QED BY <3>1, <3>2
    <2>3. CASE Restart(r)
      <3>1. CASE Mine(r).id = seen[r].id
        <4> slot[r] \in Slots /\ hash[r] \in Bodies
          BY <2>3 DEF Restart, Attempting
        <4>0. /\ keys' = [keys EXCEPT ![slot[r]] =
                            Retaken(keys[slot[r]], seen[r], hash[r], started[r])]
              /\ seen' = [seen EXCEPT ![r] = NoRow]
              /\ pc' = [pc EXCEPT ![r] = "route"]
              /\ givenUp' = [givenUp EXCEPT ![slot[r]] = givenUp[slot[r]] \cup {"taken"}]
              /\ UNCHANGED <<clock, slot, hash, started, answerVars, committed>>
          BY <2>3, <3>1 DEF Restart, Goto, GiveUp
        <4>1. keys' \in [Slots -> Row]
          <5>1. Retaken(keys[slot[r]], seen[r], hash[r], started[r]) \in Row
            BY RetakenRow DEF TypeOK
          <5> QED BY <4>0, <5>1 DEF TypeOK
        <4>2. givenUp' \in [Slots -> SUBSET Causes]
          <5>1. givenUp[slot[r]] \cup {"taken"} \in SUBSET Causes
            BY DEF TypeOK, Causes
          <5> QED BY <4>0, <5>1 DEF TypeOK
        <4> QED
          BY <4>0, <4>1, <4>2, RowFields DEF TypeOK, Pcs, Holding
      <3>2. CASE Mine(r).id # seen[r].id
        BY <2>3, <3>2, LeaveType DEF Restart, TypeOK, Answer, Replies
      <3> QED BY <3>1, <3>2
    <2> QED BY <1>2, <2>1, <2>2, <2>3 DEF Claim
  <1>3. ASSUME NEW r \in Requests, Run(r) PROVE TypeOK'
    <2>1. CASE RouteAnswers(r) \/ RouteFails(r) \/ CommitRoute(r)
      BY Zenon, <2>1 DEF TypeOK, RouteAnswers, RouteFails, CommitRoute, Goto, Answer,
                  Pcs, Holding, Replies
    <2>2. CASE RememberGet(r) \/ ForgetGet(r)
      <3> slot[r] \in Slots
        BY <2>2 DEF RememberGet, ForgetGet, Lookup, Attempting
      <3>1. CASE Leave(r)
        BY <2>2, <3>1, LeaveType DEF RememberGet, ForgetGet, Lookup, TypeOK
      <3>2. CASE ~Leave(r)
        BY <2>2, <3>2 DEF RememberGet, ForgetGet, Lookup, TypeOK, Mine, Goto, Pcs, Holding
      <3> QED BY <3>1, <3>2
    <2>3. CASE Complete(r)
      <3>1. keys' \in [Slots -> Row]
        BY <2>3, FinishedRow, Zenon DEF Complete, TypeOK, Attempting
      <3> QED BY <2>3, <3>1, LeaveType DEF Complete, TypeOK
    <2>4. CASE Release(r)
      <3>1. keys' \in [Slots -> Row]
        BY <2>4, RowFields DEF Release, TypeOK
      <3>2. givenUp' \in [Slots -> SUBSET Causes]
        BY <2>4 DEF Release, TypeOK, GiveUp, Causes
      <3> QED BY <2>4, <3>1, <3>2, LeaveType DEF Release, TypeOK
    <2> QED BY <1>3, <2>1, <2>2, <2>3, <2>4 DEF Run
  <1>4. ASSUME NEW r \in Requests, StoreFails(r) \/ Crash(r) PROVE TypeOK'
    BY <1>4, LeaveType DEF StoreFails, Crash, TypeOK
  <1>5. ASSUME Prune PROVE TypeOK'
    <2>1. keys' \in [Slots -> Row]
      BY <1>5, RowFields DEF Prune, TypeOK
    <2>2. givenUp' \in [Slots -> SUBSET Causes]
      BY <1>5 DEF Prune, TypeOK, Causes
    <2> QED BY <1>5, <2>1, <2>2 DEF Prune, TypeOK
  <1>6. ASSUME Tick PROVE TypeOK'
    BY <1>6 DEF Tick, TypeOK
  <1>7. ASSUME UNCHANGED vars PROVE TypeOK'
    BY <1>7 DEF vars, TypeOK
  <1> QED BY <1>1, <1>2, <1>3, <1>4, <1>5, <1>6, <1>7 DEF Next

-----------------------------------------------------------------------------
(* The inductive step.  Steps that leave the table, the commits, the        *)
(* attempts and the answers alone disturb only the parts about pc.          *)

\* A step of r that moves it along or out, and may answer it itself.
LEMMA QuietStep ==
    ASSUME IInv, TypeOK', NEW r \in Requests, NEW to \in Pcs,
           pc[r] \notin {"idle", "done"}, pc' = [pc EXCEPT ![r] = to], to # "idle",
           to \in Holding => pc[r] \in Holding,
           to \in Claiming => pc[r] \in Claiming /\ UNCHANGED reply,
           to \in {"remember", "complete"} => r \in committed,
           \/ UNCHANGED reply
           \/ \E kind \in Replies \ {"replay"} : reply' = [reply EXCEPT ![r] = kind],
           UNCHANGED <<keys, slot, hash, replayed, committed, givenUp>>
    PROVE  IInv'
  <1> USE DEF IInv
  <1> Types
    BY DEF TypeOK, Types
  <1> USE DEF Types
  <1>1. Arrived' /\ Attempting' /\ StoresAfterCommit'
    BY DEF Arrived, Attempting, StoresAfterCommit, Claiming
  <1>2. Owned' /\ CommittedOwns'
    BY DEF Owned, CommittedOwns, Held, Mine
  <1>3. AnswersCommitted' /\ AnswersMatch'
    BY DEF AnswersCommitted, AnswersMatch, Held
  <1>4. ReplayIsCommitted' /\ ReplayMatchesWhileHeld'
    BY DEF ReplayIsCommitted, ReplayMatchesWhileHeld, Held
  <1> QED BY <1>1, <1>2, <1>3, <1>4

\* A request that has no claim meets a row in the table and resolves it.
LEMMA ResolveStep ==
    ASSUME IInv, TypeOK', NEW r \in Requests, NEW s \in Slots, NEW b \in Bodies,
           pc[r] \in Claiming \cup {"idle"}, Resolve(r, keys[s], b),
           slot' = [slot EXCEPT ![r] = s], hash' = [hash EXCEPT ![r] = b],
           UNCHANGED <<keys, committed, givenUp>>
    PROVE  IInv'
  <1> USE DEF IInv
  <1> Types
    BY DEF TypeOK, Types
  <1> USE DEF Types
  <1>1. r \notin committed /\ reply[r] = "none"
    BY Zenon DEF Arrived
  <1>2. \/ pc' = [pc EXCEPT ![r] = "restart"] /\ UNCHANGED answerVars
        \/ /\ pc' = [pc EXCEPT ![r] = "done"]
           /\ \/ /\ reply' = [reply EXCEPT ![r] = "mismatch"] /\ UNCHANGED replayed
              \/ /\ reply' = [reply EXCEPT ![r] = "in_flight"] /\ UNCHANGED replayed
              \/ /\ keys[s].answer # None /\ keys[s].request_hash = b
                 /\ reply' = [reply EXCEPT ![r] = "replay"]
                 /\ replayed' = [replayed EXCEPT ![r] = keys[s].answer]
    BY Zenon DEF Resolve, Running, Goto, Leave, Answer
  <1>3. Arrived' /\ Attempting' /\ StoresAfterCommit'
    BY <1>1, <1>2 DEF Arrived, Attempting, StoresAfterCommit, Claiming
  <1>4. Owned' /\ CommittedOwns'
    BY <1>1, <1>2 DEF Owned, CommittedOwns, Held, Mine, Holding
  <1>5. AnswersCommitted' /\ AnswersMatch'
    BY ZenonT(60), <1>1 DEF AnswersCommitted, AnswersMatch, Held
  <1>6. ReplayIsCommitted'
    BY <1>1, <1>2 DEF ReplayIsCommitted, AnswersCommitted
  <1>7. ReplayMatchesWhileHeld'
    <2> SUFFICES ASSUME NEW x \in Requests, reply'[x] = "replay", Held(slot[x])'
                 PROVE  hash'[replayed'[x]] = hash'[x]
      BY Zenon DEF ReplayMatchesWhileHeld
    <2>1. CASE x = r
      BY ZenonT(60), <1>1, <1>2, <2>1 DEF AnswersCommitted, AnswersMatch, Held
    <2>2. CASE x # r
      <3>1. reply[x] = "replay" /\ replayed'[x] = replayed[x] /\ Held(slot[x])
        BY Zenon, <1>2, <2>2 DEF Held
      <3>2. replayed[x] \in Requests \ {r}
        BY <1>1, <3>1 DEF ReplayIsCommitted
      <3> QED BY Zenon, <2>2, <3>1, <3>2 DEF ReplayMatchesWhileHeld
    <2> QED BY Zenon, <2>1, <2>2
  <1> QED BY Zenon, <1>3, <1>4, <1>5, <1>6, <1>7

\* The middleware and the claim preserve the invariant.
LEMMA ClaimStep ==
    ASSUME IInv, TypeOK', NEW r \in Requests, Arrive(r) \/ Claim(r)
    PROVE  IInv'
  <1>1. CASE Bypass(r) \/ RefuseEarly(r)
    <2> USE DEF IInv
    <2> Types
      BY DEF TypeOK, Types
    <2> USE DEF Types
    <2>1. /\ pc[r] = "idle" /\ pc' = [pc EXCEPT ![r] = "done"]
          /\ reply' \in {[reply EXCEPT ![r] = "own"], [reply EXCEPT ![r] = "refused"]}
          /\ committed' \in {committed, committed \cup {r}}
          /\ UNCHANGED <<keys, slot, hash, replayed, givenUp>>
      BY <1>1 DEF Bypass, RefuseEarly, Goto, Answer
    <2>2. slot[r] = None /\ None \notin Slots
      BY Zenon, <2>1, NoneAssumption DEF Arrived, Slots
    <2>3. Arrived' /\ Attempting' /\ StoresAfterCommit'
      BY ZenonT(60), <2>1, <2>2 DEF Arrived, Attempting, StoresAfterCommit, Claiming
    <2>4. Owned' /\ CommittedOwns'
      BY Zenon, <2>1, <2>2 DEF Owned, CommittedOwns, Held, Mine, Holding
    <2>5. AnswersCommitted' /\ AnswersMatch'
      BY Zenon, <2>1 DEF AnswersCommitted, AnswersMatch, Held
    <2>6. ReplayIsCommitted' /\ ReplayMatchesWhileHeld'
      BY <2>1 DEF ReplayIsCommitted, ReplayMatchesWhileHeld, Held
    <2> QED BY Zenon, <2>3, <2>4, <2>5, <2>6
  <1>2. ASSUME NEW s \in Slots, NEW b \in Bodies, Get(r, s, b) PROVE IInv'
    <2>1. CASE Resolve(r, keys[s], b)
      BY <1>2, <2>1, ResolveStep, Zenon DEF Get
    <2>2. CASE ~Resolve(r, keys[s], b)
      <3> USE DEF IInv
      <3> Types
        BY Zenon DEF TypeOK, Types
      <3> USE DEF Types
      <3>1. /\ pc[r] = "idle" /\ pc' = [pc EXCEPT ![r] = "insert"]
            /\ slot' = [slot EXCEPT ![r] = s] /\ hash' = [hash EXCEPT ![r] = b]
            /\ UNCHANGED <<keys, answerVars, committed, givenUp>>
        BY <1>2, <2>2 DEF Get, Goto
      <3>2. r \notin committed /\ reply[r] = "none"
        BY Zenon, <3>1 DEF Arrived
      <3>3. Arrived' /\ Attempting' /\ StoresAfterCommit'
        BY Zenon, <3>1, <3>2 DEF Arrived, Attempting, StoresAfterCommit, Claiming
      <3>4. Owned' /\ CommittedOwns'
        BY Zenon, <3>1, <3>2 DEF Owned, CommittedOwns, Held, Mine, Holding
      <3>5. AnswersCommitted' /\ AnswersMatch'
        BY Zenon, <3>1, <3>2 DEF AnswersCommitted, AnswersMatch, Held
      <3>6. ReplayIsCommitted'
        BY Zenon, <3>1, <3>2 DEF ReplayIsCommitted
      <3>7. ReplayMatchesWhileHeld'
        <4> SUFFICES ASSUME NEW x \in Requests, reply'[x] = "replay", Held(slot[x])'
                     PROVE  hash'[replayed'[x]] = hash'[x]
          BY Zenon DEF ReplayMatchesWhileHeld
        <4>1. x # r /\ reply[x] = "replay" /\ replayed[x] \in Requests /\ replayed[x] # r
          BY Zenon, <3>1, <3>2 DEF ReplayIsCommitted
        <4>2. Held(slot[x])
          BY <3>1, <4>1 DEF Held
        <4> QED BY Zenon, <3>1, <4>1, <4>2 DEF ReplayMatchesWhileHeld
      <3> QED BY Zenon, <3>3, <3>4, <3>5, <3>6, <3>7
    <2> QED BY <2>1, <2>2
  <1>3. CASE Insert(r)
    <2>1. CASE Present(Mine(r))
      BY Zenon, <1>3, <2>1, QuietStep DEF Insert, Goto, Claiming, Pcs, Holding
    <2>2. CASE ~Present(Mine(r))
      <3> USE DEF IInv
      <3> Types
        BY Zenon DEF TypeOK, Types
      <3> USE DEF Types
      <3> DEFINE s == slot[r]
      <3>1. /\ pc[r] = "insert" /\ pc' = [pc EXCEPT ![r] = "route"]
            /\ s \in Slots /\ keys[s].id = None
            /\ keys' = [keys EXCEPT ![s] = NewRow(r)]
            /\ UNCHANGED <<slot, hash, answerVars, committed, givenUp>>
        BY Zenon, <1>3, <2>2 DEF Insert, Goto, Present, Mine, Attempting
      <3>2. NewRow(r).id = r /\ NewRow(r).request_hash = hash[r] /\ NewRow(r).answer = None
        BY Zenon DEF NewRow
      <3>3. Arrived' /\ Attempting' /\ StoresAfterCommit'
        BY ZenonT(60), <3>1 DEF Arrived, Attempting, StoresAfterCommit, Claiming
      <3>4. Owned' /\ CommittedOwns'
        BY <3>1, <3>2, NoneAssumption DEF Owned, CommittedOwns, Attempting, Held, Mine, Holding
      <3>5. AnswersCommitted' /\ AnswersMatch'
        BY Zenon, <3>1, <3>2 DEF AnswersCommitted, AnswersMatch, Held
      <3>6. ReplayIsCommitted' /\ ReplayMatchesWhileHeld'
        BY <3>1 DEF ReplayIsCommitted, ReplayMatchesWhileHeld, Held
      <3> QED BY Zenon, <3>3, <3>4, <3>5, <3>6
    <2> QED BY Zenon, <2>1, <2>2
  <1>4. CASE Raced(r)
    <2> slot[r] \in Slots /\ hash[r] \in Bodies
      BY <1>4 DEF Raced, Attempting, IInv, TypeOK
    <2>1. CASE Resolve(r, Mine(r), hash[r])
      <3>1. slot' = [slot EXCEPT ![r] = slot[r]] /\ hash' = [hash EXCEPT ![r] = hash[r]]
        BY <1>4 DEF Raced, IInv, TypeOK
      <3>2. Resolve(r, keys[slot[r]], hash[r])
        BY ZenonT(60), <2>1 DEF Mine
      <3>3. pc[r] \in Claiming \cup {"idle"} /\ UNCHANGED <<keys, committed, givenUp>>
        BY <1>4 DEF Raced, Claiming
      <3> QED BY <3>1, <3>2, <3>3, ResolveStep, ZenonT(60)
    <2>2. CASE ~Resolve(r, Mine(r), hash[r])
      <3>1. /\ pc[r] = "raced" /\ pc' = [pc EXCEPT ![r] = "done"]
            /\ reply' = [reply EXCEPT ![r] = "in_flight"]
            /\ UNCHANGED <<keys, slot, hash, replayed, committed, givenUp>>
        BY <1>4, <2>2 DEF Raced, Leave, Goto, Answer
      <3> QED BY <3>1, QuietStep, Zenon DEF Claiming, Pcs, Holding, Replies
    <2> QED BY Zenon, <2>1, <2>2
  <1>5. CASE Restart(r)
    <2>1. CASE Mine(r).id # seen[r].id
      <3>1. /\ pc[r] = "restart" /\ pc' = [pc EXCEPT ![r] = "done"]
            /\ reply' = [reply EXCEPT ![r] = "failed"]
            /\ UNCHANGED <<keys, slot, hash, replayed, committed, givenUp>>
        BY Zenon, <1>5, <2>1 DEF Restart, Leave, Goto, Answer
      <3> QED BY <3>1, QuietStep, Zenon DEF Claiming, Pcs, Holding, Replies
    <2>2. CASE Mine(r).id = seen[r].id
      <3> USE DEF IInv
      <3> Types
        BY Zenon DEF TypeOK, Types
      <3> USE DEF Types
      <3> DEFINE s == slot[r]
                 new == Retaken(keys[s], seen[r], hash[r], started[r])
      <3>1. /\ pc[r] = "restart" /\ pc' = [pc EXCEPT ![r] = "route"]
            /\ s \in Slots /\ hash[r] \in Bodies
            /\ keys' = [keys EXCEPT ![s] = new]
            /\ givenUp' = [givenUp EXCEPT ![s] = givenUp[s] \cup {"taken"}]
            /\ UNCHANGED <<slot, hash, answerVars, committed>>
        BY Zenon, <1>5, <2>2 DEF Restart, Goto, GiveUp, Attempting
      <3>2. new.answer = keys[s].answer
        <4>1. /\ keys[slot[r]] \in Row /\ seen[r] \in Row
              /\ hash[r] \in Bodies /\ started[r] \in Nat
          BY <3>1 DEF TypeOK
        <4>2. Retaken(keys[slot[r]], seen[r], hash[r], started[r]).answer = keys[slot[r]].answer
          BY <4>1 DEF Retaken, Row
        <4> QED BY ZenonT(60), <4>2
      <3> HIDE DEF new
      <3>3. \A t \in Slots : givenUp'[t] = {} => t # s /\ givenUp[t] = {}
        <4>1. givenUp[s] \cup {"taken"} # {}
          BY ZenonT(60)
        <4> HIDE DEF s
        <4> QED BY <3>1, <4>1, Zenon
      <3>4. Arrived' /\ Attempting' /\ StoresAfterCommit'
        BY <3>1 DEF Arrived, Attempting, StoresAfterCommit, Claiming
      <3>5. Owned' /\ CommittedOwns'
        <4>1. Owned'
          BY <3>1, <3>3, ZenonT(60) DEF Owned, Attempting, Held, Mine, Holding
        <4>2. CommittedOwns'
          BY Zenon, <3>1, <3>3 DEF CommittedOwns, Held, Mine
        <4> QED BY <4>1, <4>2
      <3>6. AnswersCommitted' /\ AnswersMatch'
        <4>1. \A t \in Slots : keys'[t].answer = keys[t].answer
          BY Zenon, <3>1, <3>2
        <4>2. AnswersCommitted'
          BY Zenon, <3>1, <4>1 DEF AnswersCommitted
        <4>3. AnswersMatch'
          BY Zenon, <3>1, <3>3, <4>1 DEF AnswersMatch, Held
        <4> QED BY Zenon, <4>2, <4>3
      <3>7. ReplayIsCommitted' /\ ReplayMatchesWhileHeld'
        BY <3>1, <3>3 DEF ReplayIsCommitted, ReplayMatchesWhileHeld, Attempting, Held
      <3> QED BY Zenon, <3>4, <3>5, <3>6, <3>7
    <2> QED BY <2>1, <2>2
  <1> QED BY Zenon, <1>1, <1>2, <1>3, <1>4, <1>5 DEF Arrive, Claim


USE DEF storeVars, requestVars, answerVars

\* The run, its ends and a crash preserve the invariant.
LEMMA RunStep ==
    ASSUME IInv, TypeOK', NEW r \in Requests, Run(r) \/ StoreFails(r) \/ Crash(r)
    PROVE  IInv'
  <1>1. CASE RouteAnswers(r) \/ RouteFails(r)
    BY Zenon, <1>1, QuietStep DEF RouteAnswers, RouteFails, Goto, Answer, Claiming, Pcs, Holding, Replies
  <1>2. CASE StoreFails(r) \/ Crash(r)
    BY Zenon, <1>2, QuietStep DEF StoreFails, Crash, Leave, Goto, Claiming, Pcs, Holding
  <1>3. CASE RememberGet(r) \/ ForgetGet(r)
    BY Zenon, <1>3, QuietStep
    DEF RememberGet, ForgetGet, Lookup, Leave, Goto, Claiming, Pcs, Holding, StoresAfterCommit,
        IInv
  <1>4. CASE CommitRoute(r)
    <2>1. CASE committed' = committed
      BY Zenon, <1>4, <2>1, QuietStep DEF CommitRoute, Goto, Claiming, Pcs, Holding
    <2>2. CASE committed' = committed \cup {r}
      <3> USE DEF IInv
      <3> Types
        BY Zenon DEF TypeOK, Types
      <3> USE DEF Types
      <3>1. /\ pc[r] = "sent"
            /\ \E next \in {"remember", "forget"} : pc' = [pc EXCEPT ![r] = next]
            /\ UNCHANGED <<keys, slot, hash, answerVars, givenUp>>
        BY Zenon, <1>4 DEF CommitRoute, Goto
      <3>2. Arrived' /\ Attempting' /\ StoresAfterCommit'
        BY Zenon, <2>2, <3>1 DEF Arrived, Attempting, StoresAfterCommit, Claiming
      <3>3. Owned' /\ CommittedOwns'
        BY ZenonT(60), <2>2, <3>1 DEF Owned, CommittedOwns, Held, Mine, Holding
      <3>4. AnswersCommitted' /\ AnswersMatch'
        BY Zenon, <2>2, <3>1 DEF AnswersCommitted, AnswersMatch, Held
      <3>5. ReplayIsCommitted' /\ ReplayMatchesWhileHeld'
        BY <2>2, <3>1 DEF ReplayIsCommitted, ReplayMatchesWhileHeld, Held
      <3> QED BY Zenon, <3>2, <3>3, <3>4, <3>5
    <2> QED BY Zenon, <1>4, <2>1, <2>2 DEF CommitRoute
  <1>5. CASE Complete(r)
    <2>1. CASE Mine(r).id # seen[r].id
      BY <1>5, <2>1, QuietStep, Zenon DEF Complete, Leave, Goto, Claiming, Pcs, Holding
    <2>2. CASE Mine(r).id = seen[r].id
      <3> USE DEF IInv
      <3> Types
        BY DEF TypeOK, Types
      <3> USE DEF Types
      <3> DEFINE s == slot[r]
                 new == Finished(keys[s], r)
      <3>1. /\ pc[r] = "complete" /\ pc' = [pc EXCEPT ![r] = "done"]
            /\ s \in Slots /\ keys[s] \in Row /\ r \in committed
            /\ keys' = [keys EXCEPT ![s] = new]
            /\ UNCHANGED <<slot, hash, answerVars, committed, givenUp>>
        BY Zenon, <1>5, <2>2 DEF Complete, Leave, Goto, Attempting, StoresAfterCommit
      <3>2. new.id = keys[s].id /\ new.request_hash = keys[s].request_hash /\ new.answer = r
        BY ZenonT(60), <3>1, FinishedRow
      <3> HIDE DEF new
      <3>3. Arrived' /\ Attempting' /\ StoresAfterCommit'
        BY <3>1 DEF Arrived, Attempting, StoresAfterCommit, Claiming
      <3>4. Owned'
        <4> SUFFICES ASSUME NEW x \in Requests, pc'[x] \in Holding, Held(slot[x])'
                     PROVE  Mine(x)'.id = x /\ Mine(x)'.request_hash = hash'[x]
          BY Zenon DEF Owned
        <4>1. x # r /\ pc[x] \in Holding /\ slot[x] \in Slots /\ Held(slot[x])
          BY Zenon, <3>1 DEF Holding, Attempting, Held
        <4>2. Mine(x).id = x /\ Mine(x).request_hash = hash[x]
          BY Zenon, <4>1 DEF Owned
        <4> QED BY Zenon, <3>1, <3>2, <4>1, <4>2 DEF Mine
      <3>5. CommittedOwns'
        BY Zenon, <3>1, <3>2 DEF CommittedOwns, Held, Mine
      <3>6. AnswersCommitted'
        BY Zenon, <3>1, <3>2 DEF AnswersCommitted
      <3>7. AnswersMatch'
        BY ZenonT(60), <3>1, <3>2 DEF AnswersMatch, Owned, Held, Mine, Holding
      <3>8. ReplayIsCommitted' /\ ReplayMatchesWhileHeld'
        BY <3>1 DEF ReplayIsCommitted, ReplayMatchesWhileHeld, Held
      <3> QED BY Zenon, <3>3, <3>4, <3>5, <3>6, <3>7, <3>8
    <2> QED BY <2>1, <2>2
  <1>6. CASE Release(r)
    <2>1. CASE Mine(r).id # seen[r].id
      BY <1>6, <2>1, QuietStep, Zenon DEF Release, Leave, Goto, Claiming, Pcs, Holding
    <2>2. CASE Mine(r).id = seen[r].id
      <3> USE DEF IInv
      <3> Types
        BY DEF TypeOK, Types
      <3> USE DEF Types
      <3> DEFINE s == slot[r]
      <3>1. /\ pc[r] = "release" /\ pc' = [pc EXCEPT ![r] = "done"]
            /\ s \in Slots
            /\ keys' = [keys EXCEPT ![s] = NoRow]
            /\ UNCHANGED <<slot, hash, answerVars, committed>>
        BY Zenon, <1>6, <2>2 DEF Release, Leave, Goto, Attempting
      <3>2. \A t \in Slots : givenUp'[t] = {} => givenUp[t] = {}
        <4>1. givenUp' \in {givenUp, [givenUp EXCEPT ![s] = givenUp[s] \cup {"forgotten"}]}
          BY <1>6, <2>2 DEF Release, GiveUp
        <4>2. givenUp[s] \cup {"forgotten"} # {}
          OBVIOUS
        <4> HIDE DEF s
        <4> QED BY ZenonT(60), <3>1, <4>1, <4>2
      <3>3. r \in committed => givenUp'[s] # {}
        <4>1. givenUp[s] \cup {"forgotten"} # {}
          BY Zenon
        <4>2. r \in committed => givenUp' = [givenUp EXCEPT ![s] = givenUp[s] \cup {"forgotten"}]
          BY Zenon, <1>6, <2>2 DEF Release, GiveUp
        <4> HIDE DEF s
        <4> QED BY <3>1, <4>1, <4>2, Zenon
      <3>4. Arrived' /\ Attempting' /\ StoresAfterCommit'
        BY Zenon, <3>1 DEF Arrived, Attempting, StoresAfterCommit, Claiming
      <3>5. Owned'
        <4> SUFFICES ASSUME NEW x \in Requests, pc'[x] \in Holding, Held(slot[x])'
                     PROVE  Mine(x)'.id = x /\ Mine(x)'.request_hash = hash'[x]
          BY Zenon DEF Owned
        <4>1. x # r /\ pc[x] \in Holding /\ slot[x] \in Slots /\ Held(slot[x])
          BY Zenon, <3>1, <3>2 DEF Holding, Attempting, Held
        <4>2. Mine(x).id = x /\ Mine(x).request_hash = hash[x]
          BY Zenon, <4>1 DEF Owned
        <4>3. slot[x] # s
          <5>1. Held(s) => keys[s].id = r
            BY Zenon, <3>1 DEF Owned, Holding, Mine
          <5> QED BY Zenon, <4>1, <4>2, <5>1 DEF Mine
        <4> QED BY Zenon, <3>1, <4>1, <4>2, <4>3 DEF Mine
      <3>6. CommittedOwns'
        <4> SUFFICES ASSUME NEW x \in committed, slot[x] \in Slots, Held(slot[x])'
                     PROVE  Mine(x)'.id = x
          BY Zenon, <3>1 DEF CommittedOwns
        <4>1. Held(slot[x]) /\ (slot[x] = s => x # r)
          BY Zenon, <3>1, <3>2, <3>3 DEF Held
        <4>2. Mine(x).id = x
          BY Zenon, <4>1 DEF CommittedOwns
        <4>3. slot[x] # s
          <5>1. Held(s) => keys[s].id = r
            BY <3>1 DEF Owned, Holding, Mine
          <5> QED BY ZenonT(60), <4>1, <4>2, <5>1 DEF Mine
        <4> QED BY Zenon, <3>1, <4>2, <4>3 DEF Mine
      <3>7. AnswersCommitted' /\ AnswersMatch'
        BY Zenon, <3>1, <3>2 DEF AnswersCommitted, AnswersMatch, Held, NoRow
      <3>8. ReplayIsCommitted' /\ ReplayMatchesWhileHeld'
        BY Zenon, <3>1, <3>2 DEF ReplayIsCommitted, ReplayMatchesWhileHeld, Attempting, Held
      <3> QED BY Zenon, <3>4, <3>5, <3>6, <3>7, <3>8
    <2> QED BY <2>1, <2>2
  <1> QED BY Zenon, <1>1, <1>2, <1>3, <1>4, <1>5, <1>6 DEF Run

\* The sweep and the clock preserve the invariant.
LEMMA EnvironmentStep ==
    ASSUME IInv, TypeOK', Prune \/ Tick \/ UNCHANGED vars
    PROVE  IInv'
  <1>1. CASE Prune
    <2> USE DEF IInv
    <2> Types
      BY ZenonT(60) DEF TypeOK, Types
    <2> USE DEF Types
    <2>1. UNCHANGED <<pc, slot, hash, answerVars, committed>>
      BY <1>1 DEF Prune
    <2>2. \A s \in Slots : givenUp'[s] = {} => givenUp[s] = {} /\ keys'[s] = keys[s]
      BY <1>1, Zenon DEF Prune
    <2>3. \A s \in Slots : keys'[s].answer # None => keys'[s] = keys[s]
      BY Zenon, <1>1 DEF Prune, NoRow
    <2>4. Arrived' /\ Attempting' /\ StoresAfterCommit'
      BY Zenon, <2>1 DEF Arrived, Attempting, StoresAfterCommit
    <2>5. Owned'
      <3> SUFFICES ASSUME NEW x \in Requests, pc'[x] \in Holding, Held(slot[x])'
                   PROVE  Mine(x)'.id = x /\ Mine(x)'.request_hash = hash'[x]
        BY Zenon DEF Owned
      <3>1. pc[x] \in Holding /\ slot[x] \in Slots
        BY Zenon, <2>1 DEF Holding, Attempting
      <3>2. Held(slot[x]) /\ keys'[slot[x]] = keys[slot[x]]
        BY Zenon, <2>1, <2>2, <3>1 DEF Held
      <3> QED BY Zenon, <2>1, <3>1, <3>2 DEF Owned, Mine
    <2>6. CommittedOwns'
      BY Zenon, <2>1, <2>2 DEF CommittedOwns, Held, Mine
    <2>7. AnswersCommitted' /\ AnswersMatch'
      BY ZenonT(60), <2>1, <2>2, <2>3 DEF AnswersCommitted, AnswersMatch, Held
    <2>8. ReplayIsCommitted' /\ ReplayMatchesWhileHeld'
      BY <2>1, <2>2 DEF ReplayIsCommitted, ReplayMatchesWhileHeld, Attempting, Held
    <2> QED BY Zenon, <2>4, <2>5, <2>6, <2>7, <2>8
  <1>2. CASE Tick \/ UNCHANGED vars
    <2> USE DEF IInv
    <2> Types
      BY Zenon DEF TypeOK, Types
    <2> USE DEF Types
    <2>1. UNCHANGED <<keys, pc, slot, hash, answerVars, committed, givenUp>>
      BY <1>2 DEF Tick, vars
    <2> QED
      BY ZenonT(60), <2>1 DEF Arrived, Attempting, StoresAfterCommit, Owned, CommittedOwns,
                  AnswersCommitted, AnswersMatch, ReplayIsCommitted,
                  ReplayMatchesWhileHeld, Held, Mine
  <1> QED BY <1>1, <1>2

\* IInv is an invariant of the middleware and its store.
THEOREM Invariance == Spec => []IInv
  <1>1. IInv /\ [Next]_vars => IInv'
    <2> SUFFICES ASSUME IInv, [Next]_vars PROVE IInv'
      OBVIOUS
    <2>1. TypeOK'
      BY TypeStep DEF IInv
    <2> QED BY <2>1, ClaimStep, RunStep, EnvironmentStep DEF Next
  <1> QED BY InitEstablishesIInv, <1>1, PTL DEF Spec

-----------------------------------------------------------------------------
(* The theorems.                                                           *)

\* Every variable keeps its type: the claims, the answers and the history.
THEOREM TypeCorrect == Spec => []TypeOK
  <1>1. IInv => TypeOK
    BY DEF IInv
  <1> QED BY Invariance, <1>1, PTL

\* While no claim on a key was given up, the request between its claim and
\* its end owns the row, so there is one such request (IdempotencyMiddleware
\* and the unique (user_id, key)).
THEOREM SoleHolder == Spec => []SoleHolderWhileHeld
  <1>1. IInv => SoleHolderWhileHeld
    BY DEF IInv, Owned, SoleHolderWhileHeld
  <1> QED BY Invariance, <1>1, PTL

\* While no claim on a key was given up, the work sent under it commits at
\* most once, whatever crashes, store failures and retries do.
THEOREM DoneOnce == Spec => []DoneOnceWhileHeld
  <1>1. IInv => DoneOnceWhileHeld
    BY DEF IInv, CommittedOwns, DoneOnceWhileHeld, Mine
  <1> QED BY Invariance, <1>1, PTL

\* A replayed answer always comes from a committed run of the same account
\* and key.
THEOREM ReplayCommitted == Spec => []ReplayIsCommitted
  <1>1. IInv => ReplayIsCommitted
    BY DEF IInv
  <1> QED BY Invariance, <1>1, PTL

\* While no claim on a key was given up, a replayed answer is that of a run
\* with the same method, path and body.
THEOREM ReplayMatches == Spec => []ReplayMatchesWhileHeld
  <1>1. IInv => ReplayMatchesWhileHeld
    BY DEF IInv
  <1> QED BY Invariance, <1>1, PTL

\* No step turns a stored answer back into an open claim; restart in
\* particular does not, though it assigns null to the answer columns.
THEOREM FinishedForGood == Spec => FinishedStaysFinished
  <1> DEFINE Kept == \A s \in Slots :
                         Present(keys[s]) /\ keys[s].answer # None =>
                             keys'[s].answer # None \/ ~Present(keys'[s])
  <1>1. IInv /\ [Next]_vars => Kept
    <2> SUFFICES ASSUME IInv, [Next]_vars, NEW s \in Slots,
                        Present(keys[s]), keys[s].answer # None,
                        keys'[s] # keys[s], keys'[s] # NoRow
                 PROVE  keys'[s].answer # None
      BY DEF Present, NoRow
    <2>0. keys \in [Slots -> Row] /\ keys[s] \in Row
      BY Zenon DEF IInv, TypeOK
    <2>1. ASSUME NEW r \in Requests, Insert(r) PROVE FALSE
      BY <2>0, <2>1 DEF Insert, Mine
    <2>2. ASSUME NEW r \in Requests, Restart(r) PROVE keys'[s].answer # None
      <3>1. slot[r] = s /\ keys'[s] = Retaken(keys[s], seen[r], hash[r], started[r])
        BY Zenon, <2>0, <2>2 DEF Restart
      <3> QED BY Zenon, <2>0, <3>1 DEF Retaken, Row
    <2>3. ASSUME NEW r \in Requests, Complete(r) PROVE keys'[s].answer # None
      <3>1. keys'[s] = Finished(keys[s], r)
        BY Zenon, <2>0, <2>3 DEF Complete
      <3>2. Finished(keys[s], r).answer = r
        BY Zenon, <2>0, FinishedRow
      <3> QED BY <3>1, <3>2, NoneAssumption
    <2>4. ASSUME NEW r \in Requests, Release(r) PROVE FALSE
      BY Zenon, <2>0, <2>4 DEF Release
    <2>5. CASE Prune
      BY <2>0, <2>5 DEF Prune
    <2>6. CASE UNCHANGED keys
      BY <2>6
    <2> QED
      BY Zenon, <2>1, <2>2, <2>3, <2>4, <2>5, <2>6
      DEF Next, Arrive, Claim, Run, Bypass, RefuseEarly, Get, Raced, RouteAnswers,
          RouteFails, CommitRoute, RememberGet, ForgetGet, Lookup, StoreFails,
          Crash, Tick, vars
  <1>2. IInv /\ [Next]_vars => [Kept]_vars
    BY <1>1
  <1> QED BY Invariance, <1>2, PTL DEF FinishedStaysFinished, Spec

=============================================================================
