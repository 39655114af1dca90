------------------------------ MODULE ItemsProofs ------------------------------
(***************************************************************************)
(* Proofs about Items, for any accounts, requests, keys, fields and values. *)
(*                                                                         *)
(* The argument is that of optimistic locking.  A version names one row    *)
(* (VersionNamesRow), so the UPDATE that finds the version it loaded finds *)
(* the row it loaded; from then on the row lock keeps it so (HeldRows),    *)
(* and the commit writes over exactly what the request compared with its   *)
(* If-Match.  For the same reason two answers that carry one ETag tell one  *)
(* content, although an answer leaves before its commit.                   *)
(***************************************************************************)
EXTENDS Items, TLAPS

Active(r) == pc[r] \notin {"idle", "done"}
Writing(r) == pc[r] \in {"loaded", "sent"}

\* A request that arrived has an operation, and only one that is over landed.
Asked ==
    \A r \in Requests :
        /\ pc[r] = "idle" <=> op[r] = None
        /\ r \in landed => pc[r] = "done"

\* A key dealt to a create that has not landed names no row, and is dealt once.
Keys ==
    \A r \in Requests :
        op[r] # None /\ op[r].kind = "create" =>
            /\ r \notin landed => items[op[r].item] = NoRow
            /\ \A x \in Requests :
                  op[x] # None /\ op[x].kind = "create" /\ op[x].item = op[r].item => x = r

\* A loaded row is one the request may write.
LoadedRows ==
    \A r \in Requests, i \in Items :
        loaded[r][i] # NoRow =>
            /\ Writing(r)
            /\ Visible(loaded[r][i], op[r].user)
            /\ \/ op[r].kind = "close"
               \/ /\ op[r].kind \in {"update", "delete"}
                  /\ op[r].item = i
                  /\ op[r].expected \in {AnyVersion, loaded[r][i].version}

\* A version names one row: what was read at the current version is current.
VersionNamesRow ==
    \A r \in Requests, i \in Items :
        loaded[r][i] # NoRow =>
            /\ loaded[r][i].version <= items[i].version
            /\ loaded[r][i].version = items[i].version => loaded[r][i] = items[i]

\* A row that a request has locked is as the request loaded it.
HeldRows ==
    \A r \in Requests : \A i \in held[r] :
        /\ Writing(r)
        /\ items[i] = loaded[r][i]
        /\ loaded[r][i] = NoRow => op[r].kind = "create" /\ op[r].item = i

\* No two requests hold one row.
Exclusive ==
    \A r, x \in Requests : \A i \in held[r] : i \in held[x] => r = x

\* A write that landed left its version behind.
LandedBeyond ==
    \A r \in landed :
        op[r].kind \in {"update", "delete"} /\ op[r].expected # AnyVersion =>
            op[r].expected < items[op[r].item].version

IInv ==
    /\ TypeOK
    /\ Asked
    /\ Keys
    /\ LoadedRows
    /\ VersionNamesRow
    /\ HeldRows
    /\ Exclusive
    /\ LandedBeyond

-----------------------------------------------------------------------------
(* Facts about rows and operations.                                        *)

\* The fields of a row, of the empty row and of an operation.
LEMMA RowFacts ==
    /\ NoRow \in Row /\ NoRow.version = 0
    /\ \A row \in Row : row.version \in Nat
    /\ \A o \in Op : /\ o.user \in Users /\ o.kind \in Kinds
                     /\ o.kind # "close" => o.item \in Items
                     /\ o.expected \in Nat \cup {AnyVersion}
  BY ItemsAssumption DEF NoRow, Row, Content, Op

\* An operation turns a row into a row and moves its version by one.
LEMMA AfterFacts ==
    ASSUME NEW row \in Row, NEW o \in Op
    PROVE  After(row, o) \in Row /\ After(row, o).version = row.version + 1
  <1>1. \A c \in Content, p \in Patch : Patched(c, p) \in Content
    BY DEF Content, Patch, Patched
  <1>2. row.content \in Content /\ o.patch \in Patch /\ o.user \in Users
        /\ row.owner \in Users \cup {None} /\ row.version \in Nat
    BY DEF Row, Op
  <1> QED BY <1>1, <1>2 DEF After, Row

\* A row somebody may write is not the empty row.
LEMMA VisibleRow ==
    ASSUME NEW row \in Row, NEW u, Visible(row, u)
    PROVE  row # NoRow /\ row.version > 0
  BY RowFacts DEF Visible

-----------------------------------------------------------------------------
(* The invariant.                                                          *)

\* It holds of a table of fresh items before anybody asks for anything.
LEMMA InitEstablishesIInv == Init => IInv
  <1> SUFFICES ASSUME Init PROVE IInv
    OBVIOUS
  <1>1. Created \subseteq Row
    BY RowFacts, AfterFacts DEF Created
  <1>2. TypeOK
    BY <1>1, RowFacts DEF Init, TypeOK, Nothing, NoAnswer, Pcs, Statuses
  <1>3. \A r \in Requests, i \in Items : loaded[r][i] = NoRow
    BY DEF Init, Nothing
  <1> QED
    BY <1>2, <1>3 DEF Init, IInv, Asked, Keys, LoadedRows, VersionNamesRow, HeldRows,
                      Exclusive, LandedBeyond

\* A request that leaves forgets its rows and lets go of its locks.
LEMMA LeaveFacts ==
    ASSUME TypeOK, NEW r \in Requests, Leave(r)
    PROVE  /\ pc' = [pc EXCEPT ![r] = "done"] /\ pc' \in [Requests -> Pcs]
           /\ loaded' \in [Requests -> [Items -> Row]]
           /\ \A i \in Items : loaded'[r][i] = NoRow
           /\ \A x \in Requests : x # r => loaded'[x] = loaded[x]
           /\ held' = [held EXCEPT ![r] = {}] /\ held' \in [Requests -> SUBSET Items]
  BY RowFacts DEF TypeOK, Leave, Goto, Nothing, Pcs

\* A request that leaves without writing disturbs nothing.
LEMMA LeavingStep ==
    ASSUME IInv, NEW r \in Requests, Leave(r), Active(r),
           answer' \in [Requests -> [status : Statuses, row : Row]],
           UNCHANGED <<items, closed, op, landed>>
    PROVE  IInv'
  <1> USE DEF IInv
  <1>0. /\ pc' = [pc EXCEPT ![r] = "done"] /\ pc' \in [Requests -> Pcs]
        /\ loaded' \in [Requests -> [Items -> Row]]
        /\ \A i \in Items : loaded'[r][i] = NoRow
        /\ \A x \in Requests : x # r => loaded'[x] = loaded[x]
        /\ held' = [held EXCEPT ![r] = {}] /\ held' \in [Requests -> SUBSET Items]
    BY LeaveFacts
  <1>1. TypeOK'
    BY <1>0 DEF TypeOK
  <1>2. Asked' /\ Keys'
    BY <1>0 DEF Asked, Keys, TypeOK, Active
  <1>3. LoadedRows'
    BY <1>0 DEF LoadedRows, TypeOK, Writing, Visible
  <1>4. VersionNamesRow'
    BY <1>0 DEF VersionNamesRow
  <1>5. HeldRows' /\ Exclusive'
    BY <1>0 DEF HeldRows, Exclusive, TypeOK, Active, Writing
  <1>6. LandedBeyond'
    BY DEF LandedBeyond
  <1> QED BY <1>1, <1>2, <1>3, <1>4, <1>5, <1>6

\* get_actor.
LEMMA AdmitStep ==
    ASSUME IInv, NEW r \in Requests, NEW o \in Op, Admit(r, o)
    PROVE  IInv'
  <1> USE DEF IInv
  <1>1. /\ pc[r] = "idle" /\ op[r] = None /\ r \notin landed
        /\ op' = [op EXCEPT ![r] = o] /\ o # None
        /\ UNCHANGED <<items, closed, landed>>
        /\ \A i \in Items : loaded[r][i] = NoRow
        /\ held[r] = {}
    <2>1. /\ pc[r] = "idle" /\ op' = [op EXCEPT ![r] = o]
          /\ UNCHANGED <<items, closed, landed>>
      BY DEF Admit
    <2>2. op[r] = None /\ r \notin landed /\ o # None
      BY <2>1, MarksAssumption DEF Asked
    <2>3. ~Writing(r)
      BY <2>1 DEF Writing
    <2>4. \A i \in Items : loaded[r][i] = NoRow
      BY <2>3 DEF LoadedRows
    <2>5. held[r] = {}
      BY <2>3 DEF HeldRows
    <2> QED BY <2>1, <2>2, <2>4, <2>5
  <1>2. /\ pc' \in [Requests -> Pcs] /\ held' = held
        /\ loaded' \in [Requests -> [Items -> Row]]
        /\ \A x \in Requests, i \in Items : loaded'[x][i] = loaded[x][i]
        /\ answer' \in [Requests -> [status : Statuses, row : Row]]
        /\ \A x \in Requests : x # r => pc'[x] = pc[x]
        /\ pc'[r] \in {"admitted", "done"}
    <2>1. CASE Refuse(r, "401")
      <3>1. /\ pc' = [pc EXCEPT ![r] = "done"] /\ pc' \in [Requests -> Pcs]
            /\ loaded' \in [Requests -> [Items -> Row]]
            /\ \A i \in Items : loaded'[r][i] = NoRow
            /\ \A x \in Requests : x # r => loaded'[x] = loaded[x]
            /\ held' = [held EXCEPT ![r] = {}]
        BY <2>1, LeaveFacts DEF Refuse
      <3>2. held' = held
        BY <1>1, <3>1 DEF TypeOK
      <3>3. answer' \in [Requests -> [status : Statuses, row : Row]]
        BY <2>1, RowFacts DEF Refuse, Tell, TypeOK, Statuses
      <3> QED BY <1>1, <3>1, <3>2, <3>3, Zenon DEF TypeOK
    <2>2. CASE ~Refuse(r, "401")
      BY SMTT(60), <2>2 DEF Admit, TypeOK, Goto, Pcs
    <2> QED BY <2>1, <2>2
  <1>3. TypeOK'
    BY <1>1, <1>2, Zenon DEF TypeOK
  <1>4. Asked'
    BY <1>1, <1>2 DEF Asked, TypeOK
  <1>5. Keys'
    <2>1. o.kind = "create" => o.item \in Items /\ items[o.item] = NoRow
      BY RowFacts DEF Admit, Unused, TypeOK
    <2> QED BY <1>1, <2>1 DEF Keys, TypeOK, Admit, Unused
  <1>6. LoadedRows' /\ VersionNamesRow' /\ HeldRows'
    BY <1>1, <1>2 DEF LoadedRows, VersionNamesRow, HeldRows, Writing, TypeOK
  <1>7. Exclusive' /\ LandedBeyond'
    BY <1>1, <1>2 DEF Exclusive, LandedBeyond, TypeOK
  <1> QED BY <1>3, <1>4, <1>5, <1>6, <1>7

\* ItemService.create.
LEMMA CreateStep ==
    ASSUME IInv, NEW r \in Requests, Create(r)
    PROVE  IInv'
  <1> USE DEF IInv
  <1> DEFINE k == op[r].item
  <1>1. /\ pc[r] = "admitted" /\ pc' = [pc EXCEPT ![r] = "sent"]
        /\ op[r] \in Op /\ op[r].kind = "create" /\ k \in Items
        /\ held' = [held EXCEPT ![r] = {k}]
        /\ UNCHANGED <<items, closed, op, loaded, landed>>
    BY RowFacts DEF Create, Goto, Asked, TypeOK
  <1>2. items[k] = NoRow
    BY <1>1, MarksAssumption DEF Keys, Asked
  <1>3. \A i \in Items : loaded[r][i] = NoRow
    BY <1>1 DEF LoadedRows, Writing
  <1>4. \A x \in Requests : k \in held[x] => x = r
    <2> SUFFICES ASSUME NEW x \in Requests, k \in held[x] PROVE x = r
      OBVIOUS
    <2>1. loaded[x][k] = NoRow /\ op[x].kind = "create" /\ op[x].item = k /\ Writing(x)
      BY <1>2 DEF HeldRows
    <2>2. op[x] # None
      BY <2>1 DEF Asked, Writing
    <2> QED BY <1>1, <2>1, <2>2, MarksAssumption DEF Keys
  <1>5. TypeOK'
    <2>1. answer' \in [Requests -> [status : Statuses, row : Row]]
      BY <1>1, RowFacts, AfterFacts DEF Create, Tell, TypeOK, Statuses
    <2> QED BY <1>1, <2>1, Zenon DEF TypeOK, Pcs
  <1>6. Asked' /\ Keys'
    BY <1>1 DEF Asked, Keys, TypeOK
  <1>7. LoadedRows' /\ VersionNamesRow'
    BY <1>1 DEF LoadedRows, VersionNamesRow, TypeOK, Writing, Visible
  <1>8. HeldRows'
    BY <1>1, <1>2, <1>3 DEF HeldRows, TypeOK, Writing
  <1>9. Exclusive'
    BY <1>1, <1>4 DEF Exclusive, TypeOK
  <1>10. LandedBeyond'
    BY <1>1 DEF LandedBeyond
  <1> QED BY <1>5, <1>6, <1>7, <1>8, <1>9, <1>10

\* get_for_owner with _at_version, and the first statement of a close.
LEMMA LoadStep ==
    ASSUME IInv, NEW r \in Requests, Load(r) \/ LoadOwned(r)
    PROVE  IInv'
  <1> USE DEF IInv
  <1>1. /\ pc[r] = "admitted" /\ op[r] \in Op /\ op[r].user \in Users
        /\ op[r].kind # "close" => op[r].item \in Items /\ items[op[r].item] \in Row
        /\ UNCHANGED <<items, closed, op, landed>>
    BY RowFacts DEF Load, LoadOwned, Asked, TypeOK
  <1>2. held[r] = {} /\ \A i \in Items : loaded[r][i] = NoRow
    BY SMTT(60), <1>1 DEF HeldRows, LoadedRows, Writing, TypeOK
  <1>3. CASE Load(r) /\ Leave(r)
    <2>1. answer' \in [Requests -> [status : Statuses, row : Row]]
      <3>1. \E s \in Statuses, row \in Row : Tell(r, s, row)
        <4>1. CASE Tell(r, "200", items[op[r].item])
          BY Zenon, <1>1, <1>3, <4>1 DEF Load, Statuses
        <4>2. CASE ~Tell(r, "200", items[op[r].item])
          BY <1>1, <1>3, <4>2, RowFacts DEF Load, Refuse, Statuses, Goto, Leave, TypeOK, Pcs
        <4> QED BY Zenon, <4>1, <4>2
      <3> QED BY <3>1 DEF Tell, TypeOK
    <2> QED BY Zenon, <1>1, <1>3, <2>1, LeavingStep DEF Active
  <1>4. ASSUME UNCHANGED <<held, answer>>, pc' = [pc EXCEPT ![r] = "loaded"],
               NEW rows \in [Items -> Row], loaded' = [loaded EXCEPT ![r] = rows],
               \A i \in Items :
                  rows[i] # NoRow =>
                     /\ rows[i] = items[i] /\ Visible(rows[i], op[r].user)
                     /\ \/ op[r].kind = "close"
                        \/ /\ op[r].kind \in {"update", "delete"}
                           /\ op[r].item = i
                           /\ op[r].expected \in {AnyVersion, rows[i].version}
        PROVE  IInv'
    <2>1. TypeOK'
      BY ZenonT(60), <1>1, <1>4 DEF TypeOK, Pcs
    <2>2. Asked' /\ Keys'
      BY SMTT(60), <1>1, <1>4 DEF Asked, Keys, TypeOK
    <2>3. LoadedRows'
      BY <1>1, <1>4 DEF LoadedRows, TypeOK, Writing, Visible
    <2>4. VersionNamesRow'
      BY <1>1, <1>4, RowFacts DEF VersionNamesRow, TypeOK
    <2>5. HeldRows' /\ Exclusive'
      BY <1>1, <1>2, <1>4 DEF HeldRows, Exclusive, TypeOK, Writing
    <2>6. LandedBeyond'
      BY <1>1 DEF LandedBeyond
    <2> QED BY Zenon, <2>1, <2>2, <2>3, <2>4, <2>5, <2>6
  <1>5. CASE Load(r) /\ ~Leave(r)
    <2> DEFINE i == op[r].item
               rows == [loaded[r] EXCEPT ![i] = items[i]]
    <2>1. /\ UNCHANGED <<held, answer>> /\ pc' = [pc EXCEPT ![r] = "loaded"]
          /\ Visible(items[i], op[r].user) /\ op[r].kind \in {"update", "delete"}
          /\ op[r].expected \in {AnyVersion, items[i].version}
          /\ i \in Items
          /\ loaded' = [loaded EXCEPT ![r] = rows]
      BY Zenon, <1>1, <1>5 DEF Load, Refuse, Goto
    <2>2. rows \in [Items -> Row] /\ rows[i] = items[i]
          /\ \A j \in Items : j # i => rows[j] = NoRow
      BY <1>1, <1>2, <2>1 DEF TypeOK
    <2> HIDE DEF rows
    <2> QED BY <1>4, <2>1, <2>2, Zenon
  <1>6. CASE LoadOwned(r)
    <2> DEFINE rows == [i \in Items |-> IF Visible(items[i], op[r].user) THEN items[i] ELSE NoRow]
    <2>1. /\ UNCHANGED <<held, answer>> /\ pc' = [pc EXCEPT ![r] = "loaded"]
          /\ op[r].kind = "close" /\ loaded' = [loaded EXCEPT ![r] = rows]
      BY <1>6 DEF LoadOwned, Goto
    <2>2. rows \in [Items -> Row]
          /\ \A i \in Items : rows[i] # NoRow => rows[i] = items[i] /\ Visible(rows[i], op[r].user)
      BY RowFacts DEF TypeOK
    <2> HIDE DEF rows
    <2> QED BY <1>4, <2>1, <2>2, Zenon
  <1> QED BY <1>3, <1>5, <1>6

\* One UPDATE of the flush: it locks the row as loaded, or answers 412.
LEMMA FlushStep ==
    ASSUME IInv, NEW r \in Requests, Flush(r)
    PROVE  IInv'
  <1> USE DEF IInv
  <1>1. PICK i \in Unwritten(r) :
            /\ ~Locked(r, i)
            /\ \/ /\ items[i].version = loaded[r][i].version
                  /\ held' = [held EXCEPT ![r] = @ \cup {i}]
                  /\ UNCHANGED <<pc, loaded, answer>>
               \/ items[i].version # loaded[r][i].version /\ Refuse(r, "412")
    BY DEF Flush
  <1>2. pc[r] = "loaded" /\ UNCHANGED <<items, closed, op, landed>>
    BY DEF Flush
  <1>3. CASE Refuse(r, "412")
    <2>1. answer' \in [Requests -> [status : Statuses, row : Row]]
      BY <1>3, RowFacts DEF Refuse, Tell, TypeOK, Statuses
    <2> QED BY <1>2, <1>3, <2>1, LeavingStep DEF Active, Refuse
  <1>4. CASE ~Refuse(r, "412")
    <2>1. /\ i \in Items /\ loaded[r][i] # NoRow /\ loaded[r][i] = items[i]
          /\ held' = [held EXCEPT ![r] = held[r] \cup {i}]
          /\ UNCHANGED <<pc, loaded, answer>>
      BY <1>1, <1>4 DEF Unwritten, Dirty, VersionNamesRow
    <2>2. \A x \in Requests : i \in held[x] => x = r
      BY <1>1 DEF Locked
    <2>3. TypeOK'
      BY <1>2, <2>1 DEF TypeOK
    <2>4. Asked' /\ Keys' /\ LoadedRows' /\ VersionNamesRow' /\ LandedBeyond'
      <3>1. Asked' /\ Keys' /\ LandedBeyond'
        BY <1>2, <2>1 DEF Asked, Keys, LandedBeyond
      <3>2. LoadedRows'
        BY <1>2, <2>1 DEF LoadedRows, Writing, Visible
      <3>3. VersionNamesRow'
        BY <1>2, <2>1 DEF VersionNamesRow
      <3> QED BY <3>1, <3>2, <3>3
    <2>5. HeldRows'
      BY <1>2, <2>1 DEF HeldRows, Writing, TypeOK
    <2>6. Exclusive'
      BY <2>1, <2>2 DEF Exclusive, TypeOK
    <2> QED BY <2>3, <2>4, <2>5, <2>6
  <1> QED BY Zenon, <1>3, <1>4

\* The answer goes out.
LEMMA RespondStep ==
    ASSUME IInv, NEW r \in Requests, Respond(r)
    PROVE  IInv'
  <1> USE DEF IInv
  <1>1. /\ pc[r] = "loaded" /\ pc' = [pc EXCEPT ![r] = "sent"] /\ op[r] \in Op
        /\ UNCHANGED <<items, closed, op, loaded, held, landed>>
    BY DEF Respond, Goto, Asked, TypeOK
  <1>2. answer' \in [Requests -> [status : Statuses, row : Row]]
    <2>1. CASE op[r].kind = "update"
      <3>1. op[r].item \in Items
        BY <1>1, <2>1, RowFacts
      <3>2. items[op[r].item] \in Row /\ After(loaded[r][op[r].item], op[r]) \in Row
        BY <1>1, <3>1, AfterFacts DEF TypeOK
      <3>3. \E row \in Row : Tell(r, "200", row)
        BY <2>1, <3>2 DEF Respond
      <3> QED BY <3>3 DEF Tell, TypeOK, Statuses
    <2>2. CASE op[r].kind # "update"
      <3>1. Tell(r, "204", NoRow)
        BY <2>2 DEF Respond
      <3> QED BY <3>1, RowFacts DEF Tell, TypeOK, Statuses
    <2> QED BY <2>1, <2>2
  <1>3. TypeOK'
    BY <1>1, <1>2, Zenon DEF TypeOK, Pcs
  <1>4. Asked' /\ Keys' /\ LandedBeyond'
    BY ZenonT(60), <1>1 DEF Asked, Keys, LandedBeyond, TypeOK
  <1>5. LoadedRows' /\ VersionNamesRow'
    BY <1>1 DEF LoadedRows, VersionNamesRow, Writing, Visible, TypeOK
  <1>6. HeldRows' /\ Exclusive'
    BY <1>1 DEF HeldRows, Exclusive, Writing, TypeOK
  <1> QED BY <1>3, <1>4, <1>5, <1>6

\* get_session commits.
LEMMA CommitStep ==
    ASSUME IInv, NEW r \in Requests, Commit(r)
    PROVE  IInv'
  <1> USE DEF IInv
  <1>1. /\ pc[r] = "sent" /\ op[r] \in Op /\ op' = op /\ r \notin landed
        /\ landed' \in {landed, landed \cup {r}}
        /\ held[r] # {} => landed' = landed \cup {r}
        /\ closed' \in {closed, closed \cup {op[r].user}} /\ answer' = answer
    BY Zenon DEF Commit, Asked, TypeOK
  <1>2. /\ pc' = [pc EXCEPT ![r] = "done"] /\ pc' \in [Requests -> Pcs]
        /\ loaded' \in [Requests -> [Items -> Row]]
        /\ \A i \in Items : loaded'[r][i] = NoRow
        /\ \A x \in Requests : x # r => loaded'[x] = loaded[x]
        /\ held' = [held EXCEPT ![r] = {}] /\ held' \in [Requests -> SUBSET Items]
    BY LeaveFacts DEF Commit
  <1>3. \A i \in Items : i \notin held[r] => items'[i] = items[i]
    BY DEF Commit
  <1>4. \A i \in held[r] : i \in Items /\ items'[i] = After(items[i], op[r])
                           /\ items'[i] \in Row /\ items'[i].version = items[i].version + 1
    BY <1>1, AfterFacts DEF Commit, HeldRows, TypeOK
  <1>5. items' \in [Items -> Row] /\ \A i \in Items : items[i].version <= items'[i].version
    <2>1. \A i \in Items : items'[i] \in Row /\ items[i].version <= items'[i].version
      BY <1>3, <1>4, RowFacts DEF TypeOK
    <2>2. items' = [i \in Items |-> items'[i]]
      BY DEF Commit
    <2> QED BY Zenon, <2>1, <2>2
  <1>6. TypeOK'
    BY <1>1, <1>2, <1>5, RowFacts, Zenon DEF TypeOK
  <1>7. Asked'
    BY <1>1, <1>2 DEF Asked, TypeOK
  <1>8. Keys'
    <2> SUFFICES ASSUME NEW x \in Requests, op[x] # None, op[x].kind = "create", x \notin landed'
                 PROVE  items'[op[x].item] = NoRow
      BY <1>1 DEF Keys
    <2>1. op[x] \in Op /\ op[x].item \in Items /\ items[op[x].item] = NoRow
      BY <1>1, RowFacts DEF TypeOK, Keys
    <2>2. op[x].item \notin held[r]
      <3> SUFFICES ASSUME op[x].item \in held[r] PROVE FALSE
        OBVIOUS
      <3>1. op[r].kind = "create" /\ op[r].item = op[x].item
        BY <2>1 DEF HeldRows
      <3>2. x = r
        BY Zenon, <3>1, <1>1, MarksAssumption DEF Keys
      <3> QED BY <3>2, <1>1
    <2> QED BY <1>3, <2>1, <2>2
  <1>9. LoadedRows'
    <2> SUFFICES ASSUME NEW x \in Requests, NEW i \in Items, loaded'[x][i] # NoRow
                 PROVE  /\ Writing(x)'
                        /\ Visible(loaded'[x][i], op[x].user)
                        /\ \/ op[x].kind = "close"
                           \/ /\ op[x].kind \in {"update", "delete"}
                              /\ op[x].item = i
                              /\ op[x].expected \in {AnyVersion, loaded'[x][i].version}
      BY <1>1 DEF LoadedRows, Visible
    <2>1. x # r /\ loaded'[x][i] = loaded[x][i]
      BY <1>2
    <2>2. Writing(x) => Writing(x)'
      BY <1>2, <2>1 DEF Writing, TypeOK
    <2> QED BY Zenon, <2>1, <2>2 DEF LoadedRows
  <1>10. VersionNamesRow'
    <2> SUFFICES ASSUME NEW x \in Requests, NEW i \in Items, loaded'[x][i] # NoRow
                 PROVE  /\ loaded'[x][i].version <= items'[i].version
                        /\ loaded'[x][i].version = items'[i].version => loaded'[x][i] = items'[i]
      BY DEF VersionNamesRow
    <2>1. x # r /\ loaded'[x][i] = loaded[x][i]
      BY Zenon, <1>2
    <2>2. loaded[x][i].version \in Nat /\ items[i].version \in Nat
      BY ZenonT(60), RowFacts DEF TypeOK
    <2> QED BY <1>3, <1>4, <2>1, <2>2 DEF VersionNamesRow
  <1>11. HeldRows' /\ Exclusive'
    BY <1>1, <1>2, <1>3 DEF HeldRows, Exclusive, Writing, TypeOK
  <1>12. LandedBeyond'
    <2> SUFFICES ASSUME NEW x \in landed', op[x].kind \in {"update", "delete"},
                        op[x].expected # AnyVersion
                 PROVE  op[x].expected < items'[op[x].item].version
      BY Zenon, <1>1 DEF LandedBeyond
    <2>1. x \in Requests /\ op[x] \in Op
      BY <1>1, <1>6 DEF TypeOK, Asked
    <2>2. op[x].item \in Items /\ op[x].expected \in Nat
          /\ items[op[x].item].version \in Nat /\ items'[op[x].item].version \in Nat
      BY <2>1, <1>5, RowFacts DEF TypeOK
    <2>3. CASE x \in landed
      BY <2>2, <2>3, <1>5 DEF LandedBeyond
    <2>4. CASE x \notin landed
      <3>1. x = r
        BY <1>1, <2>4
      <3>2. op[r].item \in held[r]
        <4>1. held[r] # {}
          BY <1>1, <2>4, <3>1 DEF Commit
        <4>2. \A i \in held[r] : i = op[r].item
          <5> SUFFICES ASSUME NEW i \in held[r] PROVE i = op[r].item
            BY Zenon
          <5>1. i \in Items /\ loaded[r][i] # NoRow
            BY <1>4, <3>1 DEF HeldRows
          <5> QED BY <3>1, <5>1 DEF LoadedRows
        <4> QED BY Zenon, <4>1, <4>2
      <3>3. items[op[r].item] = loaded[r][op[r].item] /\ loaded[r][op[r].item] # NoRow
        BY Zenon, <3>1, <3>2 DEF HeldRows
      <3>4. op[r].expected = items[op[r].item].version
        BY ZenonT(60), <2>2, <3>1, <3>3 DEF LoadedRows
      <3>5. items'[op[r].item].version = items[op[r].item].version + 1
        BY <1>4, <3>2
      <3> QED BY <2>2, <3>1, <3>4, <3>5
    <2> QED BY <2>3, <2>4
  <1> QED BY <1>6, <1>7, <1>8, <1>9, <1>10, <1>11, <1>12

\* A request that ends early rolls back.
LEMMA AbortStep ==
    ASSUME IInv, NEW r \in Requests, Abort(r)
    PROVE  IInv'
  <1>1. answer' \in [Requests -> [status : Statuses, row : Row]]
    BY DEF Abort, IInv, TypeOK
  <1> QED BY <1>1, LeavingStep DEF Abort, Active

\* IInv is an invariant of the items API.
THEOREM Invariance == Spec => []IInv
  <1>1. IInv /\ [Next]_vars => IInv'
    <2> SUFFICES ASSUME IInv, [Next]_vars PROVE IInv'
      OBVIOUS
    <2>1. CASE UNCHANGED vars
      <3> USE <2>1 DEF vars, IInv
      <3>1. TypeOK' /\ Asked' /\ Keys' /\ LandedBeyond'
        BY Zenon DEF TypeOK, Asked, Keys, LandedBeyond
      <3>2. LoadedRows' /\ VersionNamesRow'
        BY DEF LoadedRows, VersionNamesRow, Writing, Visible
      <3>3. HeldRows' /\ Exclusive'
        BY DEF HeldRows, Exclusive, Writing
      <3> QED BY Zenon, <3>1, <3>2, <3>3
    <2>2. ASSUME NEW r \in Requests, Step(r) PROVE IInv'
      BY <2>2, CreateStep, LoadStep, FlushStep, RespondStep, CommitStep DEF Step
    <2> QED BY <2>1, <2>2, AdmitStep, AbortStep DEF Next
  <1> QED BY InitEstablishesIInv, <1>1, PTL DEF Spec

-----------------------------------------------------------------------------
(* The theorems.                                                           *)

\* Every variable keeps its type.
THEOREM TypeCorrect == Spec => []TypeOK
  <1>1. IInv => TypeOK
    BY DEF IInv
  <1> QED BY Invariance, <1>1, PTL

\* Of the clients that sent back one ETag at most one wrote over it: the
\* write left the version behind, and the UPDATE of any other finds no row.
THEOREM NoLostUpdate == Spec => []OneWritePerVersion
  <1>1. Init => OneWritePerVersion
    BY DEF Init, OneWritePerVersion
  <1>2. IInv /\ OneWritePerVersion /\ [Next]_vars => OneWritePerVersion'
    <2> SUFFICES ASSUME IInv, OneWritePerVersion, [Next]_vars PROVE OneWritePerVersion'
      OBVIOUS
    <2> USE DEF IInv
    <2>1. CASE UNCHANGED <<op, landed>>
      BY <2>1 DEF OneWritePerVersion
    <2>2. ASSUME NEW r \in Requests, NEW o \in Op, Admit(r, o) PROVE OneWritePerVersion'
      <3>1. r \notin landed /\ landed' = landed /\ \A x \in Requests : x # r => op'[x] = op[x]
        BY <2>2 DEF Admit, Asked, TypeOK
      <3>2. \A x \in landed : x \in Requests /\ op'[x] = op[x]
        BY Zenon, <3>1 DEF TypeOK
      <3> QED BY <3>1, <3>2 DEF OneWritePerVersion
    <2>3. ASSUME NEW r \in Requests, Commit(r) PROVE OneWritePerVersion'
      <3>1. op' = op /\ landed' \in {landed, landed \cup {r}} /\ r \notin landed /\ op[r] \in Op
        BY Zenon, <2>3 DEF Commit, Asked, TypeOK
      <3>2. CASE landed' = landed
        BY ZenonT(60), <3>1, <3>2 DEF OneWritePerVersion
      <3>3. CASE landed' = landed \cup {r}
        <4> SUFFICES ASSUME NEW x \in landed,
                            {op[x].kind, op[r].kind} \subseteq {"update", "delete"},
                            op[x].item = op[r].item, op[x].expected = op[r].expected,
                            op[x].expected # AnyVersion
                     PROVE  FALSE
          BY <3>1, <3>3 DEF OneWritePerVersion
        <4>1. PICK i \in held[r] : TRUE
          BY Zenon, <2>3, <3>1, <3>3 DEF Commit
        <4>2. i = op[r].item /\ op[r].expected = items[i].version
          BY DEF HeldRows, LoadedRows, TypeOK
        <4>3. op[x].expected < items[i].version /\ items[i].version \in Nat
          BY <4>2, RowFacts DEF LandedBeyond, TypeOK
        <4> QED BY <4>2, <4>3
      <3> QED BY <3>1, <3>2, <3>3
    <2> QED
      BY Zenon, <2>1, <2>2, <2>3
      DEF Next, Step, Create, Load, LoadOwned, Flush, Respond, Abort, vars
  <1> QED BY Invariance, <1>1, <1>2, PTL DEF Spec

\* The API implements the store of atomic conditional writes: a commit that
\* wrote is one landing, and every other statement is invisible.
THEOREM Refinement == Spec => Linearizable
  <1>0. /\ Store!Row = Row /\ Store!NoRow = NoRow /\ Store!Op = Op
        /\ \A row, o : Store!After(row, o) = After(row, o)
        /\ \A row, u : Store!Visible(row, u) = Visible(row, u)
    BY DEF Store!Row, Store!NoRow, Store!Op, Store!After, Store!Visible, Store!Content,
           Store!Kinds, Store!Patch, Store!Patched, Row, NoRow, Op, After, Visible,
           Content, Kinds, Patch, Patched
  <1>1. Init => Store!Init
    <2> SUFFICES ASSUME Init PROVE Store!Init
      OBVIOUS
    <2>1. ASSUME NEW row \in Created
          PROVE  row \in Row /\ row.version = 1 /\ ~row.deleted /\ row.owner # None
      <3>1. PICK o \in Op : o.kind = "create" /\ row = After(NoRow, o)
        BY <2>1 DEF Created
      <3>2. row \in Row /\ row.version = 1
        BY <3>1, RowFacts, AfterFacts
      <3>3. o.user \in Users
        BY RowFacts
      <3> QED BY <3>1, <3>2, <3>3, MarksAssumption, Zenon DEF After
    <2> QED BY <1>0, <2>1 DEF Init, Store!Init
  <1>2. IInv /\ [Next]_vars => [Store!Next]_Store!vars
    <2> SUFFICES ASSUME IInv, [Next]_vars PROVE [Store!Next]_Store!vars
      OBVIOUS
    <2> USE DEF IInv
    <2>1. CASE UNCHANGED <<items, closed, op, landed>>
      BY <2>1 DEF Store!vars
    <2>2. ASSUME NEW r \in Requests, NEW o \in Op, Admit(r, o) PROVE Store!Next
      <3>1. Store!Ask(r)
        BY Zenon, <1>0, <2>2 DEF Admit, Asked, TypeOK, Store!Ask
      <3> QED BY Zenon, <3>1 DEF Store!Next
    <2>3. ASSUME NEW r \in Requests, Commit(r) PROVE [Store!Next]_Store!vars
      <3>1. /\ pc[r] = "sent" /\ op[r] \in Op /\ op[r] # None /\ r \notin landed /\ op' = op
            /\ items' = [i \in Items |-> IF i \in held[r] THEN After(loaded[r][i], op[r])
                                                          ELSE items[i]]
        BY <2>3, MarksAssumption DEF Commit, Asked, TypeOK
      <3>2. \A i \in held[r] : i \in Items /\ items[i] = loaded[r][i]
        BY Zenon DEF HeldRows, TypeOK
      <3>3. items' = [i \in Items |-> IF i \in held[r] THEN After(items[i], op[r])
                                                       ELSE items[i]]
        BY Zenon, <3>1, <3>2
      <3>4. CASE held[r] = {} /\ op[r].kind # "close"
        <4>1. items' = items
          BY <3>3, <3>4 DEF TypeOK
        <4> QED BY <2>3, <3>1, <3>4, <4>1 DEF Commit, Store!vars
      <3>5. CASE op[r].kind = "close"
        <4>1. landed' = landed \cup {r} /\ closed' = closed \cup {op[r].user}
          BY Zenon, <2>3, <3>5 DEF Commit
        <4>2. \A i \in held[r] : Visible(items[i], op[r].user)
          BY ZenonT(60), <3>2, <3>5 DEF HeldRows, LoadedRows
        <4>3. Store!Close(r, held[r])
          BY <1>0, <3>3, <3>5, <4>1, <4>2 DEF Store!Close
        <4>4. held[r] \in SUBSET Items
          BY Zenon DEF TypeOK
        <4>5. Store!Land(r)
          BY Zenon, <3>1, <4>1, <4>3, <4>4 DEF Store!Land
        <4> QED BY Zenon, <4>5 DEF Store!Next
      <3>6. CASE held[r] # {} /\ op[r].kind # "close"
        <4>1. landed' = landed \cup {r} /\ closed' = closed
          BY Zenon, <2>3, <3>6 DEF Commit
        <4>2. \A i \in held[r] : i = op[r].item
          BY <3>6, <3>2 DEF HeldRows, LoadedRows
        <4>3. PICK i \in held[r] : i = op[r].item /\ held[r] = {i}
          BY <3>6, <4>2
        <4>4. items' = [items EXCEPT ![i] = After(items[i], op[r])]
          BY <3>2, <3>3, <4>3, Zenon DEF TypeOK
        <4>5. CASE loaded[r][i] = NoRow
          <5>1. op[r].kind = "create" /\ items[i].version = 0
            BY <3>2, <4>5, RowFacts DEF HeldRows
          <5> QED BY <1>0, <3>1, <3>2, <4>1, <4>3, <4>4, <5>1, ZenonT(60)
                  DEF Store!Put, Store!Land, Store!Next
        <4>6. CASE loaded[r][i] # NoRow
          <5>1. /\ Visible(items[i], op[r].user) /\ op[r].kind \in {"update", "delete"}
                /\ op[r].expected \in {AnyVersion, items[i].version}
            BY SMTT(60), <3>2, <3>6, <4>6 DEF LoadedRows
          <5> QED BY <1>0, <3>1, <3>2, <4>1, <4>3, <4>4, <5>1, Zenon
                  DEF Store!Write, Store!Land, Store!Next
        <4> QED BY Zenon, <4>5, <4>6
      <3> QED BY Zenon, <3>4, <3>5, <3>6
    <2> QED
      BY <2>1, <2>2, <2>3, Zenon
      DEF Next, Step, Create, Load, LoadOwned, Flush, Respond, Abort, vars
  <1> QED BY Invariance, <1>1, <1>2, PTL DEF Spec, Linearizable, Store!Spec

-----------------------------------------------------------------------------
(* What an ETag names.                                                     *)

\* The answer describes a row that is, or once was, committed.
Settled(r) == answer[r].status = "200" /\ (op[r].kind = "read" \/ r \in landed)

\* Only a request that got so far was answered, only one about a single item
\* is told of a row, and a create loads none.
Answered ==
    \A r \in Requests :
        /\ answer[r].status # "none" => pc[r] \in {"sent", "done"}
        /\ answer[r].status = "200" => op[r].kind \in {"create", "read", "update"}
        /\ pc[r] = "loaded" => op[r].kind # "create"

\* What a create or an update told its client is what its commit is to write.
Announced ==
    \A r \in Requests : \A i \in held[r] :
        pc[r] = "sent" /\ op[r].kind \in {"create", "update"} =>
            op[r].item = i /\ answer[r].row = After(loaded[r][i], op[r])

\* An answer about a committed row tells no version that is to come, and at
\* the current version it tells the current row.
ToldOfThePast ==
    \A r \in Requests :
        Settled(r) =>
            /\ answer[r].row.version <= items[op[r].item].version
            /\ answer[r].row.version = items[op[r].item].version
                  => answer[r].row = items[op[r].item]

\* Any two answers about committed rows agree, reads and writes alike.
ToldAlike ==
    \A r1, r2 \in Requests :
        /\ Settled(r1) /\ Settled(r2)
        /\ op[r1].item = op[r2].item
        /\ answer[r1].row.version = answer[r2].row.version
        => answer[r1].row = answer[r2].row

EtagInv == Answered /\ Announced /\ ToldOfThePast /\ ToldAlike

\* Nobody has been told anything before anybody asked.
LEMMA EtagInit == Init => EtagInv
  BY DEF Init, EtagInv, Answered, Announced, ToldOfThePast, ToldAlike, Settled, NoAnswer

\* A step of one request that writes no row keeps what the others were told,
\* if what it is told itself is either old or the row as it is.
LEMMA EtagFrame ==
    ASSUME IInv, IInv', EtagInv, NEW r \in Requests, items' = items, landed' = landed,
           \A x \in Requests \ {r} :
               /\ answer'[x] = answer[x] /\ op'[x] = op[x] /\ pc'[x] = pc[x]
               /\ loaded'[x] = loaded[x] /\ held'[x] = held[x],
           answer'[r].status # "none" => pc'[r] \in {"sent", "done"},
           answer'[r].status = "200" => op'[r].kind \in {"create", "read", "update"},
           pc'[r] = "loaded" => op'[r].kind # "create",
           \A i \in held'[r] :
               pc'[r] = "sent" /\ op'[r].kind \in {"create", "update"} =>
                   op'[r].item = i /\ answer'[r].row = After(loaded'[r][i], op'[r]),
           Settled(r)' =>
               \/ Settled(r) /\ op'[r] = op[r] /\ answer'[r] = answer[r]
               \/ op'[r].item \in Items /\ answer'[r].row = items[op'[r].item]
    PROVE  EtagInv'
  <1>1. Answered'
    BY Zenon DEF Answered, EtagInv
  <1>2. Announced'
    <2> SUFFICES ASSUME NEW x \in Requests, NEW i \in held'[x],
                        pc'[x] = "sent", op'[x].kind \in {"create", "update"}
                 PROVE  op'[x].item = i /\ answer'[x].row = After(loaded'[x][i], op'[x])
      BY Zenon DEF Announced, After, Patched
    <2>1. CASE x = r
      BY Zenon, <2>1
    <2>2. CASE x # r
      <3>1. /\ answer'[x] = answer[x] /\ op'[x] = op[x] /\ pc'[x] = pc[x]
            /\ loaded'[x] = loaded[x] /\ held'[x] = held[x]
        BY Zenon, <2>2
      <3>2. i \in held[x] /\ pc[x] = "sent" /\ op[x].kind \in {"create", "update"}
        BY Zenon, <3>1
      <3>3. op[x].item = i /\ answer[x].row = After(loaded[x][i], op[x])
        BY Zenon, <3>2 DEF Announced, EtagInv
      <3> QED BY Zenon, <3>1, <3>3
    <2> QED BY Zenon, <2>1, <2>2
  <1>3. \A x \in Requests \ {r} : Settled(x)' => Settled(x)
    BY Zenon DEF Settled
  <1>4. \A i \in Items : items[i].version \in Nat
    BY Zenon, RowFacts DEF IInv, TypeOK
  <1>5. \A x \in Requests :
            Settled(x)' =>
               \/ Settled(x) /\ op'[x] = op[x] /\ answer'[x] = answer[x]
               \/ op'[x].item \in Items /\ answer'[x].row = items[op'[x].item]
    BY Zenon, <1>3
  <1>6. ToldOfThePast'
    <2> SUFFICES ASSUME NEW x \in Requests, Settled(x)'
                 PROVE  /\ answer'[x].row.version <= items[op'[x].item].version
                        /\ answer'[x].row.version = items[op'[x].item].version
                              => answer'[x].row = items[op'[x].item]
      BY Zenon DEF ToldOfThePast
    <2>1. CASE Settled(x) /\ op'[x] = op[x] /\ answer'[x] = answer[x]
      BY Zenon, <2>1 DEF ToldOfThePast, EtagInv
    <2>2. CASE op'[x].item \in Items /\ answer'[x].row = items[op'[x].item]
      <3>1. \A n \in Nat : n <= n
        OBVIOUS
      <3> QED BY Zenon, <1>4, <2>2, <3>1
    <2> QED BY Zenon, <1>5, <2>1, <2>2
  <1>7. ToldAlike'
    <2> SUFFICES ASSUME NEW x \in Requests, NEW y \in Requests, Settled(x)', Settled(y)',
                        op'[x].item = op'[y].item,
                        answer'[x].row.version = answer'[y].row.version
                 PROVE  answer'[x].row = answer'[y].row
      BY Zenon DEF ToldAlike
    <2>1. ASSUME NEW v \in Requests, NEW w \in Requests,
                 op'[v].item = op'[w].item, answer'[v].row.version = answer'[w].row.version,
                 answer'[v].row = items[op'[v].item], Settled(w)'
          PROVE  answer'[v].row = answer'[w].row
      BY SMTT(60), <1>6, <2>1 DEF ToldOfThePast
    <2>2. CASE /\ Settled(x) /\ op'[x] = op[x] /\ answer'[x] = answer[x]
               /\ Settled(y) /\ op'[y] = op[y] /\ answer'[y] = answer[y]
      <3>1. op[x].item = op[y].item /\ answer[x].row.version = answer[y].row.version
        BY <2>2
      <3>2. answer[x].row = answer[y].row
        BY Zenon, <2>2, <3>1 DEF ToldAlike, EtagInv
      <3> QED BY SMTT(60), <2>2, <3>2
    <2> QED BY Zenon, <1>5, <2>1, <2>2
  <1> QED BY Zenon, <1>1, <1>2, <1>6, <1>7 DEF EtagInv

\* A commit writes what was announced, at a version nobody was told before.
LEMMA EtagCommit ==
    ASSUME IInv, IInv', EtagInv, NEW r \in Requests, Commit(r)
    PROVE  EtagInv'
  <1>1. /\ pc[r] = "sent" /\ op[r] \in Op /\ op' = op /\ answer' = answer /\ r \notin landed
        /\ landed' \in {landed, landed \cup {r}}
        /\ landed' # landed /\ op[r].kind # "close" => held[r] # {}
    BY Zenon DEF Commit, Asked, TypeOK, IInv
  <1>2. /\ pc' = [pc EXCEPT ![r] = "done"]
        /\ \A x \in Requests : x # r => loaded'[x] = loaded[x]
        /\ held' = [held EXCEPT ![r] = {}]
    BY Zenon, LeaveFacts DEF Commit, IInv
  <1>3. \A i \in Items : i \notin held[r] => items'[i] = items[i]
    BY Zenon DEF Commit
  <1>4. \A i \in held[r] : /\ i \in Items /\ items'[i] = After(loaded[r][i], op[r])
                           /\ items'[i].version = items[i].version + 1
    BY <1>1, AfterFacts DEF Commit, HeldRows, TypeOK, IInv
  <1>5. /\ DOMAIN pc = Requests /\ DOMAIN held = Requests
        /\ \A x \in Requests : answer[x].row.version \in Nat
        /\ \A i \in Items : items[i].version \in Nat /\ items'[i].version \in Nat
    BY SMTT(60), RowFacts DEF IInv, TypeOK
  <1>6. Answered'
    BY <1>1, <1>2, <1>5 DEF Answered, EtagInv
  <1>7. Announced'
    <2> SUFFICES ASSUME NEW x \in Requests, NEW i \in held'[x],
                        pc'[x] = "sent", op'[x].kind \in {"create", "update"}
                 PROVE  op'[x].item = i /\ answer'[x].row = After(loaded'[x][i], op'[x])
      BY Zenon DEF Announced, After, Patched
    <2>1. x # r /\ held'[x] = held[x] /\ pc'[x] = pc[x]
      BY <1>2, <1>5
    <2>2. op'[x] = op[x] /\ answer'[x] = answer[x] /\ loaded'[x] = loaded[x]
      BY Zenon, <1>1, <1>2, <2>1
    <2>3. op[x].item = i /\ answer[x].row = After(loaded[x][i], op[x])
      <3>1. i \in held[x] /\ pc[x] = "sent" /\ op[x].kind \in {"create", "update"}
        BY Zenon, <2>1, <2>2
      <3> QED BY Zenon, <3>1 DEF Announced, EtagInv
    <2> QED BY Zenon, <2>2, <2>3
  <1>8. \A x \in Requests : Settled(x)' => op[x].item \in Items
    <2> SUFFICES ASSUME NEW x \in Requests, Settled(x)' PROVE op[x].item \in Items
      OBVIOUS
    <2>1. answer[x].status = "200"
      BY Zenon, <1>1 DEF Settled
    <2>2. pc[x] \in {"sent", "done"} /\ op[x].kind # "close"
      BY <2>1 DEF Answered, EtagInv
    <2>3. op[x] \in Op
      BY <2>2 DEF Asked, TypeOK, IInv
    <2> QED BY Zenon, <2>2, <2>3, RowFacts
  <1>9. ASSUME NEW x \in Requests, Settled(x)', x # r
        PROVE  Settled(x)
    BY Zenon, <1>1, <1>9 DEF Settled
  <1>10. ASSUME Settled(r)', op[r].kind # "read"
         PROVE  op[r].item \in held[r] /\ answer[r].row = items'[op[r].item]
    <2>1. op[r].kind \in {"create", "update"} /\ landed' # landed
      BY <1>1, <1>10 DEF Settled, Answered, EtagInv
    <2>2. PICK i \in held[r] : TRUE
      BY <1>1, <2>1
    <2>3. op[r].item = i /\ answer[r].row = After(loaded[r][i], op[r])
      BY Zenon, <1>1, <2>1 DEF Announced, EtagInv
    <2> QED BY Zenon, <1>4, <2>3
  <1>11. ASSUME NEW x \in Requests, Settled(x), op[x].item \in Items
         PROVE  /\ answer[x].row.version <= items'[op[x].item].version
                /\ answer[x].row.version = items'[op[x].item].version
                      => answer[x].row = items'[op[x].item] /\ op[x].item \notin held[r]
    <2>1. /\ answer[x].row.version <= items[op[x].item].version
          /\ answer[x].row.version = items[op[x].item].version => answer[x].row = items[op[x].item]
      BY Zenon, <1>11 DEF ToldOfThePast, EtagInv
    <2>2. CASE op[x].item \in held[r]
      BY <1>4, <1>5, <2>1, <2>2, <1>11
    <2>3. CASE op[x].item \notin held[r]
      BY Zenon, <1>3, <2>1, <2>3, <1>11
    <2> QED BY Zenon, <2>2, <2>3
  <1>12. \A x \in Requests : Settled(x)' => Settled(x) \/ (x = r /\ op[r].kind # "read")
    BY Zenon, <1>1, <1>9 DEF Settled
  <1>13. ToldOfThePast'
    <2> SUFFICES ASSUME NEW x \in Requests, Settled(x)'
                 PROVE  /\ answer[x].row.version <= items'[op[x].item].version
                        /\ answer[x].row.version = items'[op[x].item].version
                              => answer[x].row = items'[op[x].item]
      BY Zenon, <1>1 DEF ToldOfThePast
    <2>1. CASE Settled(x)
      BY Zenon, <1>8, <1>11, <2>1
    <2>2. CASE x = r /\ op[r].kind # "read"
      <3>1. \A n \in Nat : n <= n
        OBVIOUS
      <3> QED BY Zenon, <1>5, <1>8, <1>10, <2>2, <3>1
    <2> QED BY Zenon, <1>12, <2>1, <2>2
  <1>14. ToldAlike'
    <2> SUFFICES ASSUME NEW x \in Requests, NEW y \in Requests, Settled(x)', Settled(y)',
                        op[x].item = op[y].item, answer[x].row.version = answer[y].row.version
                 PROVE  answer[x].row = answer[y].row
      BY Zenon, <1>1 DEF ToldAlike
    <2>1. ASSUME NEW v \in Requests, NEW w \in Requests, Settled(w)',
                 op[v].item = op[w].item, answer[v].row.version = answer[w].row.version,
                 answer[v].row = items'[op[v].item]
          PROVE  answer[v].row = answer[w].row
      BY ZenonT(60), <1>1, <1>13, <2>1 DEF ToldOfThePast
    <2>2. CASE Settled(x) /\ Settled(y)
      BY Zenon, <2>2 DEF ToldAlike, EtagInv
    <2>3. CASE x = r /\ op[r].kind # "read"
      BY Zenon, <1>10, <2>1, <2>3
    <2>4. CASE y = r /\ op[r].kind # "read"
      BY Zenon, <1>10, <2>1, <2>4
    <2> QED BY Zenon, <1>12, <2>2, <2>3, <2>4
  <1> QED BY Zenon, <1>6, <1>7, <1>13, <1>14 DEF EtagInv

\* Two answers about committed rows that carry one ETag have one content: what
\* a read is told is the current row, what a write announced is what its commit
\* leaves, and each commit opens a version of its own.
THEOREM EtagIsExact == Spec => []EtagNamesOneContent
  <1>1. IInv /\ IInv' /\ EtagInv /\ [Next]_vars => EtagInv'
    <2> SUFFICES ASSUME IInv, IInv', EtagInv, [Next]_vars PROVE EtagInv'
      OBVIOUS
    <2> USE DEF IInv
    <2>0. /\ DOMAIN pc = Requests /\ DOMAIN held = Requests /\ DOMAIN op = Requests
          /\ DOMAIN answer = Requests /\ DOMAIN loaded = Requests
      BY Zenon DEF TypeOK
    <2>1. CASE UNCHANGED vars
      <3> USE <2>1 DEF vars, EtagInv
      <3>1. Answered'
        BY Zenon DEF Answered
      <3>2. Announced'
        BY DEF Announced, After, Patched
      <3>3. ToldOfThePast' /\ ToldAlike'
        BY ZenonT(60) DEF ToldOfThePast, ToldAlike, Settled
      <3> QED BY Zenon, <3>1, <3>2, <3>3
    <2>2. ASSUME NEW r \in Requests, NEW o \in Op, Admit(r, o) PROVE EtagInv'
      <3>1. answer[r].status = "none"
        BY <2>2 DEF Admit, Answered, EtagInv
      <3>2. /\ op' = [op EXCEPT ![r] = o] /\ UNCHANGED <<items, landed>>
            /\ \/ Goto(r, "admitted") /\ UNCHANGED <<loaded, held, answer>>
               \/ Refuse(r, "401")
        BY Zenon, <2>2 DEF Admit
      <3>3. /\ answer'[r].status \in {"none", "401"} /\ pc'[r] \in {"admitted", "done"}
            /\ answer'[r].status = "401" => pc'[r] = "done"
        BY <2>0, <3>1, <3>2 DEF Goto, Refuse, Tell, Leave
      <3>4. \A x \in Requests \ {r} :
               /\ answer'[x] = answer[x] /\ op'[x] = op[x] /\ pc'[x] = pc[x]
               /\ loaded'[x] = loaded[x] /\ held'[x] = held[x]
        BY <2>0, <3>2 DEF Goto, Refuse, Tell, Leave
      <3>5. ~Settled(r)'
        BY <3>3 DEF Settled
      <3> QED BY SMTT(60), <3>2, <3>3, <3>4, <3>5, EtagFrame
    <2>3. ASSUME NEW r \in Requests, Leave(r), UNCHANGED <<items, op, landed>>,
                 \/ UNCHANGED answer
                 \/ \E s \in {"404", "412"} : Tell(r, s, NoRow)
                 \/ /\ op[r].kind = "read" /\ op[r].item \in Items
                    /\ Tell(r, "200", items[op[r].item])
          PROVE  EtagInv'
      <3>1. /\ pc'[r] = "done" /\ held'[r] = {}
            /\ \A x \in Requests \ {r} :
                  /\ answer'[x] = answer[x] /\ op'[x] = op[x] /\ pc'[x] = pc[x]
                  /\ loaded'[x] = loaded[x] /\ held'[x] = held[x]
        BY <2>0, <2>3 DEF Leave, Goto, Tell
      <3>2. CASE UNCHANGED answer
        BY Zenon, <2>3, <3>1, <3>2, EtagFrame DEF Settled, Answered, EtagInv
      <3>3. CASE \E s \in {"404", "412"} : Tell(r, s, NoRow)
        <4>1. answer'[r].status # "200"
          BY <2>0, <3>3 DEF Tell
        <4> QED BY ZenonT(60), <2>3, <3>1, <4>1, EtagFrame DEF Settled
      <3>4. CASE /\ op[r].kind = "read" /\ op[r].item \in Items
                 /\ Tell(r, "200", items[op[r].item])
        <4>1. answer'[r].row = items[op[r].item]
          BY <2>0, <3>4 DEF Tell
        <4> QED BY Zenon, <2>3, <3>1, <3>4, <4>1, EtagFrame
      <3> QED BY ZenonT(60), <2>3, <3>2, <3>3, <3>4
    <2>4. ASSUME NEW r \in Requests, Create(r) PROVE EtagInv'
      <3>1. /\ op[r].kind = "create" /\ UNCHANGED <<items, op, landed, loaded>> /\ pc[r] = "admitted"
            /\ held'[r] = {op[r].item} /\ answer'[r].row = After(NoRow, op[r])
            /\ pc'[r] = "sent" /\ op[r] \in Op /\ op[r].item \in Items
            /\ \A x \in Requests \ {r} :
                  answer'[x] = answer[x] /\ pc'[x] = pc[x] /\ held'[x] = held[x]
        BY SMTT(60), <2>0, <2>4, RowFacts DEF Create, Goto, Tell, Asked, TypeOK
      <3>2. loaded[r][op[r].item] = NoRow
        BY SMTT(60), <3>1 DEF LoadedRows, Writing
      <3>3. ~Settled(r)'
        BY <3>1 DEF Settled, Asked
      <3> QED BY ZenonT(60), <3>1, <3>2, <3>3, EtagFrame
    <2>5. ASSUME NEW r \in Requests, pc[r] \in {"admitted", "loaded"}, op[r].kind # "create",
                 pc' = [pc EXCEPT ![r] = "loaded"],
                 UNCHANGED <<items, op, landed, answer>>,
                 \A x \in Requests \ {r} : loaded'[x] = loaded[x] /\ held'[x] = held[x]
          PROVE  EtagInv'
      <3>1. answer[r].status = "none"
        BY <2>5 DEF Answered, EtagInv
      <3>2. /\ pc'[r] = "loaded" /\ \A x \in Requests \ {r} : pc'[x] = pc[x]
        BY <2>0, <2>5
      <3>3. ~Settled(r)' /\ answer'[r].status # "200"
        BY <2>5, <3>1 DEF Settled
      <3> QED BY SMTT(60), <2>5, <3>1, <3>2, <3>3, EtagFrame
    <2>6. ASSUME NEW r \in Requests, Load(r) \/ LoadOwned(r) PROVE EtagInv'
      <3>1. op[r].kind = "read" => op[r].item \in Items
        BY <2>6, RowFacts DEF Load, LoadOwned, Asked, TypeOK
      <3>2. CASE Load(r) /\ Leave(r)
        <4>1. \/ \E s \in {"404", "412"} : Tell(r, s, NoRow)
              \/ op[r].kind = "read" /\ Tell(r, "200", items[op[r].item])
              \/ Goto(r, "loaded")
          BY Zenon, <3>2 DEF Load, Refuse
        <4>2. ~Goto(r, "loaded")
          BY <2>0, <3>2 DEF Goto, Leave
        <4> QED BY Zenon, <2>3, <3>1, <3>2, <4>1, <4>2 DEF Load
      <3>3. CASE ~(Load(r) /\ Leave(r))
        <4>1. /\ pc[r] = "admitted" /\ Goto(r, "loaded")
              /\ op[r].kind \in {"read", "update", "delete", "close"}
              /\ UNCHANGED <<items, op, landed, answer, held>>
              /\ \E rows : loaded' = [loaded EXCEPT ![r] = rows]
          BY Zenon, <2>6, <3>3 DEF Load, LoadOwned, Refuse
        <4>2. \A x \in Requests \ {r} : loaded'[x] = loaded[x] /\ held'[x] = held[x]
          BY <2>0, <4>1
        <4>3. op[r].kind # "create"
          BY <4>1
        <4> QED BY Zenon, <2>5, <4>1, <4>2, <4>3 DEF Goto
      <3> QED BY ZenonT(60), <3>2, <3>3
    <2>7. ASSUME NEW r \in Requests, Flush(r) PROVE EtagInv'
      <3>1. /\ pc[r] = "loaded" /\ UNCHANGED <<items, op, landed>>
            /\ \/ \E i \in Items : held' = [held EXCEPT ![r] = held[r] \cup {i}]
                                   /\ UNCHANGED <<pc, loaded, answer>>
               \/ Refuse(r, "412")
        BY Zenon, <2>7 DEF Flush, Unwritten, Dirty
      <3>2. CASE Refuse(r, "412")
        BY Zenon, <2>3, <3>1, <3>2 DEF Refuse
      <3>3. CASE ~Refuse(r, "412")
        <4>1. /\ pc' = [pc EXCEPT ![r] = "loaded"] /\ UNCHANGED <<loaded, answer>>
              /\ \A x \in Requests \ {r} : held'[x] = held[x]
          BY <3>1, <3>3, <2>0 DEF TypeOK
        <4> QED BY Zenon, <2>5, <3>1, <4>1 DEF Answered, EtagInv
      <3> QED BY Zenon, <3>2, <3>3
    <2>8. ASSUME NEW r \in Requests, Respond(r) PROVE EtagInv'
      <3>1. /\ pc[r] = "loaded" /\ UNCHANGED <<items, op, landed, loaded, held>> /\ Goto(r, "sent")
            /\ \E s, row : Tell(r, s, row)
        BY Zenon, <2>8 DEF Respond
      <3>2. /\ pc'[r] = "sent"
            /\ \A x \in Requests \ {r} : answer'[x] = answer[x] /\ pc'[x] = pc[x]
        BY <2>0, <3>1 DEF Goto, Tell
      <3>3. CASE op[r].kind = "update"
        <4>1. Tell(r, "200", IF op[r].item \in held[r] THEN After(loaded[r][op[r].item], op[r])
                                                       ELSE items[op[r].item])
          BY Zenon, <2>8, <3>3 DEF Respond
        <4>2. op[r].item \in held[r] => answer'[r].row = After(loaded[r][op[r].item], op[r])
          BY Zenon, <2>0, <4>1 DEF Tell
        <4>3. \A i \in held[r] : i = op[r].item
          <5> SUFFICES ASSUME NEW i \in held[r] PROVE i = op[r].item
            OBVIOUS
          <5>1. held[r] \subseteq Items
            BY Zenon DEF TypeOK
          <5>2. loaded[r][i] # NoRow
            BY Zenon, <3>3 DEF HeldRows
          <5>3. op[r].kind = "close" \/ op[r].item = i
            BY ZenonT(60), <5>1, <5>2 DEF LoadedRows
          <5> QED  BY <3>3, <5>3
        <4>4. ~Settled(r)'
          BY <3>1, <3>2, <3>3 DEF Settled, Asked
        <4> QED BY Zenon, <3>1, <3>2, <3>3, <4>2, <4>3, <4>4, EtagFrame
      <3>4. CASE op[r].kind # "update"
        <4>1. answer'[r].status = "204"
          BY <2>0, <2>8, <3>4 DEF Respond, Tell
        <4>2. op[r].kind # "create"
          BY Zenon, <3>1 DEF Answered, EtagInv
        <4>3. ~Settled(r)' /\ answer'[r].status # "200"
          BY <4>1 DEF Settled
        <4> QED BY Zenon, <3>1, <3>2, <3>4, <4>1, <4>2, <4>3, EtagFrame
      <3> QED BY Zenon, <3>3, <3>4
    <2>9. ASSUME NEW r \in Requests, Abort(r) PROVE EtagInv'
      BY Zenon, <2>3, <2>9 DEF Abort
    <2> QED BY Zenon, <2>1, <2>2, <2>4, <2>6, <2>7, <2>8, <2>9, EtagCommit DEF Next, Step
  <1>2. EtagInv => EtagNamesOneContent
    BY Zenon DEF EtagInv, ToldAlike, Settled, EtagNamesOneContent
  <1> QED BY Invariance, EtagInit, <1>1, <1>2, PTL DEF Spec

=============================================================================
