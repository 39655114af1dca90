--------------------------- MODULE UnitOfWorkProofs ----------------------------
(***************************************************************************)
(* The hooks of a session for any number of hooks, transactions and        *)
(* savepoints, and the audit trail for any rows and links.                 *)
(***************************************************************************)
EXTENDS UnitOfWork, SequenceTheorems, TLAPS

-----------------------------------------------------------------------------
(* The hooks.                                                              *)

\* A session in a transaction has numbered it.
Numbered == session = "open" => tx > 0

\* A hook is registered in a transaction that has begun; it listens until it
\* is retired, and only retired hooks are being removed.
Registered ==
    \A h \in Hooks :
        /\ since[h] <= tx
        /\ since[h] = 0 => h \notin listening /\ h \notin retired /\ fired[h] = {}
        /\ since[h] # 0 => h \in listening \/ h \in retired
        /\ h \in leaving => h \in retired

\* Hooks of the transaction that is open are waiting.
Waiting ==
    \A h \in Hooks :
        session = "open" /\ since[h] = tx => h \notin retired /\ fired[h] = {}

IInv ==
    /\ TypeOK
    /\ Numbered
    /\ Registered
    /\ Waiting
    /\ FiresForItsOutcome
    /\ FiresOnceResolved

-----------------------------------------------------------------------------

\* The hooks of the transactions before have all fired.
LEMMA BeginStep ==
  ASSUME IInv, Begin PROVE IInv'
  <1> USE BoundsAssumption DEF IInv, Begin, hookVars
  <1>1. TypeOK' BY DEF TypeOK
  <1>2. Numbered' BY DEF TypeOK, Numbered
  <1>3. Registered' BY DEF TypeOK, Registered
  <1>4. Waiting' BY DEF TypeOK, Registered, Waiting
  <1>5. FiresForItsOutcome' BY DEF FiresForItsOutcome
  <1>6. FiresOnceResolved' BY DEF FiresOnceResolved
  <1> QED BY SMTT(60), <1>1, <1>2, <1>3, <1>4, <1>5, <1>6

\* A registration waits for the transaction it is made in.
LEMMA RegisterStep ==
  ASSUME NEW h \in Hooks, IInv, Register(h) PROVE IInv'
  <1> USE BoundsAssumption DEF IInv, Register
  <1>1. TypeOK' BY DEF TypeOK
  <1>2. Numbered' BY DEF Numbered
  <1>3. Registered' BY DEF TypeOK, Numbered, Registered
  <1>4. Waiting' BY DEF Registered, Waiting
  <1>5. FiresForItsOutcome' BY DEF TypeOK, FiresForItsOutcome
  <1>6. FiresOnceResolved' BY DEF TypeOK, FiresOnceResolved
  <1> QED BY SMTT(60), <1>1, <1>2, <1>3, <1>4, <1>5, <1>6

\* Opening a savepoint touches no hook.
LEMMA SavepointStep ==
  ASSUME IInv, Savepoint PROVE IInv'
  <1> USE BoundsAssumption DEF IInv, Savepoint, hookVars
  <1>1. TypeOK' BY DEF TypeOK
  <1>2. Numbered' BY DEF Numbered
  <1>3. Registered' BY DEF Registered
  <1>4. Waiting' BY DEF Waiting
  <1>5. FiresForItsOutcome' BY DEF FiresForItsOutcome
  <1>6. FiresOnceResolved' BY DEF FiresOnceResolved
  <1> QED BY SMTT(60), <1>1, <1>2, <1>3, <1>4, <1>5, <1>6

\* in_nested_transaction() holds, so no listener acts.
LEMMA EndSavepointStep ==
  ASSUME NEW event \in Events, IInv, EndSavepoint(event) PROVE IInv'
  <1> USE BoundsAssumption DEF IInv, EndSavepoint, Dispatch, Heard
  <1>1. TypeOK' BY DEF TypeOK
  <1>2. Numbered' BY DEF Numbered
  <1>3. Registered' BY DEF Registered
  <1>4. Waiting' BY DEF Waiting
  <1>5. FiresForItsOutcome' BY DEF FiresForItsOutcome
  <1>6. FiresOnceResolved' BY DEF FiresOnceResolved
  <1> QED BY SMTT(60), <1>1, <1>2, <1>3, <1>4, <1>5, <1>6

\* The event finds the hooks of this transaction waiting, and only those act:
\* earlier ones are retired, whether or not their listeners are still on.
LEMMA EndStep ==
  ASSUME NEW event \in Events, IInv, End(event) PROVE IInv'
  <1> USE BoundsAssumption DEF IInv, End, Dispatch, Heard
  <1>1. TypeOK' BY DEF TypeOK, Numbered
  <1>2. Numbered' BY DEF Numbered
  <1>3. Registered' BY DEF Registered
  <1>4. Waiting' BY DEF Waiting
  <1>5. FiresForItsOutcome'
    <2>1. \A h \in listening \ retired : since[h] = tx /\ fired[h] = {}
      BY DEF TypeOK, Registered, Waiting, FiresOnceResolved
    <2>2. \A h \in retired : since[h] # tx
      BY DEF TypeOK, Waiting
    <2>3. \A h \in Hooks \ (listening \ retired) : since[h] # 0 => since[h] # tx
      BY <2>2 DEF Registered
    <2> SUFFICES ASSUME NEW h \in Hooks, NEW call \in fired'[h]
                 PROVE  call = <<outcome'[since[h]], since[h]>>
      BY DEF FiresForItsOutcome
    <2>4. CASE h \in listening \ retired
      BY SMTT(60), <2>1, <2>4 DEF TypeOK, Numbered
    <2>5. CASE h \notin listening \ retired
      BY SMTT(60), <2>3, <2>5 DEF TypeOK, Registered, FiresForItsOutcome
    <2> QED BY SMTT(60), <2>4, <2>5
  <1>6. FiresOnceResolved' BY DEF TypeOK, Numbered, Registered, Waiting, FiresOnceResolved
  <1> QED BY SMTT(60), <1>1, <1>2, <1>3, <1>4, <1>5, <1>6

\* A session that is closed calls nobody any more.
LEMMA CloseStep ==
  ASSUME IInv, Close PROVE IInv'
  <1> USE BoundsAssumption DEF IInv, Close, hookVars, Events
  <1>1. TypeOK' BY DEF TypeOK, Numbered
  <1>2. Numbered' BY DEF Numbered
  <1>3. Registered' BY DEF Registered
  <1>4. Waiting' BY DEF Waiting
  <1>5. FiresForItsOutcome' BY DEF Waiting, FiresForItsOutcome
  <1>6. FiresOnceResolved' BY DEF TypeOK, FiresOnceResolved
  <1> QED BY SMTT(60), <1>1, <1>2, <1>3, <1>4, <1>5, <1>6

\* A hook whose listeners are removed has fired before.
LEMMA RemoveListenersStep ==
  ASSUME NEW h \in Hooks, IInv, RemoveListeners(h) PROVE IInv'
  <1> USE BoundsAssumption DEF IInv, RemoveListeners
  <1>1. TypeOK' BY DEF TypeOK
  <1>2. Numbered' BY DEF Numbered
  <1>3. Registered' BY DEF Registered
  <1>4. Waiting' BY DEF Waiting
  <1>5. FiresForItsOutcome' BY DEF FiresForItsOutcome
  <1>6. FiresOnceResolved' BY DEF FiresOnceResolved
  <1> QED BY SMTT(60), <1>1, <1>2, <1>3, <1>4, <1>5, <1>6

\* Every reachable state satisfies the inductive invariant.
THEOREM Invariance == Spec => []IInv
  <1>1. Init => IInv
    BY BoundsAssumption
    DEF Init, IInv, TypeOK, Numbered, Registered, Waiting, FiresForItsOutcome,
        FiresOnceResolved, Events
  <1>2. IInv /\ [Next]_vars => IInv'
    <2> SUFFICES ASSUME IInv, [Next]_vars PROVE IInv'
      OBVIOUS
    <2>1. CASE UNCHANGED vars
      BY <2>1
      DEF vars, IInv, TypeOK, Numbered, Registered, Waiting, FiresForItsOutcome,
          FiresOnceResolved
    <2> QED
      BY SMTT(60), <2>1, BeginStep, RegisterStep, SavepointStep, EndSavepointStep, EndStep, CloseStep,
         RemoveListenersStep
      DEF Next
  <1> QED BY <1>1, <1>2, PTL DEF Spec

\* Every reachable state is well typed.
THEOREM TypeCorrect == Spec => []TypeOK
  BY Invariance, PTL DEF IInv

\* A hook is called only for the outcome of the transaction it was registered
\* in.
THEOREM NoMisfire == Spec => []FiresForItsOutcome
  BY Invariance, PTL DEF IInv

\* A session that commits or rolls back calls every hook once.
THEOREM FiresOnce == Spec => []FiresOnceResolved
  BY Invariance, PTL DEF IInv

-----------------------------------------------------------------------------
(* The audit trail.                                                        *)

\* A link is there or not, and not without its owner.
Whole(db) ==
    /\ db \in [All -> States]
    /\ \A l \in Links : db[l] \in {"absent", "fresh"} /\ (db[Owner[l]] = "absent" => db[l] = "absent")

\* A level of the database of which the trail is exact.
Exact ==
    {v \in [rows : [All -> States], told : [All -> Knowledge]] :
        Whole(v.rows) /\ \A r \in All : is_audited(r) => v.told[r] \in {v.rows[r], "unknown"}}

UnitInv ==
    /\ Len(stack) = (IF session = "open" THEN depth + 2 ELSE 1)
    /\ session # "open" => depth = 0
    /\ depth \in Nat
    /\ stack \in Seq(Exact)
    /\ Whole(objects)
    /\ pending = {}

LEMMA Pushes ==
    ASSUME NEW S, NEW s \in Seq(S), NEW e \in S
    PROVE  Append(s, e) \in Seq(S) /\ Len(Append(s, e)) = Len(s) + 1
OBVIOUS

LEMMA Pops ==
    ASSUME NEW S, NEW s \in Seq(S), Len(s) >= 1
    PROVE  /\ Front(s) \in Seq(S) /\ Len(Front(s)) = Len(s) - 1
           /\ Last(s) \in S /\ Head(s) \in S
           /\ <<Head(s)>> \in Seq(S) /\ Len(<<Head(s)>>) = 1
<1>1. Last(s) \in S /\ Head(s) \in S
  BY DEF Last
<1>2. Front(s) \in Seq(S) /\ Len(Front(s)) = Len(s) - 1
  <2> DEFINE n == Len(s) - 1
  <2>1. n \in Nat /\ \A i \in 1 .. n : s[i] \in S
    OBVIOUS
  <2> HIDE DEF n
  <2>2. SubSeq(s, 1, n) \in Seq(S) /\ Len(SubSeq(s, 1, n)) = n
    BY <2>1, SubSeqProperties
  <2> QED  BY <2>2 DEF Front, n
<1> QED  BY <1>1, <1>2

\* What one flush tells of a row brings what was known of it up to date.
LEMMA FlushTells ==
    ASSUME NEW b, NEW a, Whole(b), Whole(a), NEW r \in All, is_audited(r)
    PROVE  Learn(b[r], r, _collect(b, a)) = a[r]
<1> DEFINE E == _collect(b, a)
           mine == {e \in E : e.row = r}
           gone == r \in Links /\ \E e \in E : e.row = Owner[r] /\ e.action = "delete"
<1>0. Rows \cap Links = {} /\ Excluded \subseteq Rows /\ Owner \in [Links -> Rows \ Excluded] /\ All = Rows \cup Links
      /\ a[r] \in States /\ b[r] \in States /\ b[r] # "unknown"
  BY RowsAssumption DEF All, Whole, States
<1> DEFINE Of(x) == [row |-> x, before |-> b[x], after |-> a[x],
                     action |-> CASE b[x] = "absent" -> "insert"
                                  [] a[x] = "absent" -> "delete"
                                  [] OTHER -> action_for(b[x], a[x])]
           LinkOf(l) == [row |-> l, action |-> IF a[l] = "fresh" THEN "link" ELSE "unlink",
                         before |-> b[l], after |-> a[l]]
<1>1. \A e : e \in E <=> \/ \E x \in Rows : is_audited(x) /\ b[x] # a[x] /\ e = Of(x)
                         \/ \E l \in Links : b[l] # a[l] /\ a[Owner[l]] # "absent" /\ e = LinkOf(l)
  BY Zenon DEF _collect, _links
<1>2. /\ mine = {} /\ gone => Learn(b[r], r, E) = "absent"
      /\ mine = {} /\ ~gone => Learn(b[r], r, E) = b[r]
      /\ mine # {} => Learn(b[r], r, E) =
            IF \E e \in mine : mine = {e} /\ e.before = b[r] /\ Explains(e.action, e.before, e.after)
            THEN (CHOOSE e \in mine : TRUE).after ELSE "wrong"
  <2>1. Learn(b[r], r, E) =
            IF mine = {} THEN IF gone THEN "absent" ELSE b[r]
            ELSE IF \E e \in mine : mine = {e} /\ e.before = b[r] /\ Explains(e.action, e.before, e.after)
                 THEN (CHOOSE e \in mine : TRUE).after ELSE "wrong"
    BY <1>0 DEF Learn
  <2> QED  BY <2>1
<1>3. ASSUME NEW e, mine = {e}, e.before = b[r], e.after = a[r], Explains(e.action, b[r], a[r])
      PROVE  Learn(b[r], r, E) = a[r]
  <2> HIDE DEF mine, E
  <2>1. mine # {} /\ e \in mine /\ (CHOOSE x \in mine : TRUE) = e
    BY <1>3
  <2> QED  BY <1>2, <1>3, <2>1
<1>4. CASE r \in Rows
  <2>0. r \notin Links /\ ~gone
    BY <1>0, <1>4
  <2>1. \A e : e \in mine <=> b[r] # a[r] /\ e = Of(r)
    BY SMTT(60), <1>0, <1>1, <1>4, <2>0
  <2>2. CASE b[r] = a[r]
    <3>1. mine = {}
      <4> HIDE DEF mine, Of
      <4> QED  BY SMTT(60), <2>1, <2>2
    <3> QED  BY SMTT(60), <1>2, <2>0, <2>2, <3>1
  <2>3. CASE b[r] # a[r]
    <3>1. mine = {Of(r)}
      <4> HIDE DEF mine, Of
      <4> QED  BY <2>1, <2>3
    <3>2. Of(r).before = b[r] /\ Of(r).after = a[r]
      OBVIOUS
    <3>3. Explains(Of(r).action, b[r], a[r])
      BY ZenonT(60), <1>0, <2>3 DEF Explains, action_for, States
    <3> HIDE DEF mine, Of
    <3> QED  BY SMTT(60), <1>3, <3>1, <3>2, <3>3
  <2> QED  BY <2>2, <2>3
<1>5. CASE r \in Links
  <2>0. r \notin Rows /\ Owner[r] \in Rows /\ is_audited(Owner[r]) /\ Owner[r] \notin Links
    BY <1>0, <1>5 DEF is_audited
  <2>1. \A e : e \in mine <=> b[r] # a[r] /\ a[Owner[r]] # "absent" /\ e = LinkOf(r)
    BY SMTT(60), <1>0, <1>1, <1>5, <2>0
  <2>2. gone => a[Owner[r]] = "absent"
    <3>1. ASSUME NEW e \in E, e.row = Owner[r], e.action = "delete" PROVE a[Owner[r]] = "absent"
      <4>1. e = Of(Owner[r]) /\ b[Owner[r]] # a[Owner[r]]
        BY SMTT(60), <1>1, <2>0, <3>1
      <4> QED  BY SMTT(60), <3>1, <4>1 DEF action_for
    <3> QED  BY <3>1
  <2>3. a[Owner[r]] = "absent" /\ b[Owner[r]] # "absent" => gone
    <3> HAVE a[Owner[r]] = "absent" /\ b[Owner[r]] # "absent"
    <3>1. Of(Owner[r]) \in E
      BY SMTT(60), <1>1, <2>0
    <3>2. Of(Owner[r]).row = Owner[r] /\ Of(Owner[r]).action = "delete"
      OBVIOUS
    <3> HIDE DEF E, Of
    <3> QED  BY SMTT(60), <1>5, <3>1, <3>2
  <2>4. /\ b[r] \in {"absent", "fresh"} /\ a[r] \in {"absent", "fresh"}
        /\ b[Owner[r]] = "absent" => b[r] = "absent"
        /\ a[Owner[r]] = "absent" => a[r] = "absent"
    BY SMTT(60), <1>5 DEF Whole
  <2>5. CASE b[r] # a[r] /\ a[Owner[r]] # "absent"
    <3>1. mine = {LinkOf(r)}
      <4> HIDE DEF mine, LinkOf
      <4> QED  BY SMTT(60), <2>1, <2>5
    <3>2. LinkOf(r).before = b[r] /\ LinkOf(r).after = a[r]
      OBVIOUS
    <3>3. Explains(LinkOf(r).action, b[r], a[r])
      BY ZenonT(60), <2>4, <2>5 DEF Explains
    <3> HIDE DEF mine, LinkOf
    <3> QED  BY SMTT(60), <1>3, <3>1, <3>2, <3>3
  <2>6. CASE ~(b[r] # a[r] /\ a[Owner[r]] # "absent")
    <3>1. mine = {}
      <4> HIDE DEF mine, LinkOf
      <4> QED  BY SMTT(60), <2>1, <2>6
    <3>2. CASE gone
      BY SMTT(60), <1>2, <2>2, <2>4, <3>1, <3>2
    <3>3. CASE ~gone
      BY SMTT(60), <1>2, <2>3, <2>4, <2>6, <3>1, <3>3
    <3> QED  BY ZenonT(60), <3>2, <3>3
  <2> QED  BY SMTT(60), <2>5, <2>6
<1> QED  BY SMTT(60), <1>0, <1>4, <1>5

\* Taking away a row and its links leaves no link without its owner.
LEMMA WithoutWhole ==
    ASSUME NEW db, Whole(db), NEW r \in Rows
    PROVE  Whole(Without(db, r))
BY Zenon, RowsAssumption DEF Whole, Without, All, States

\* The innermost level is one of them.
LEMMA TopExact ==
    ASSUME UnitInv
    PROVE  /\ Len(stack) >= 1 /\ Top \in Exact /\ Whole(Top.rows) /\ Top.told \in [All -> Knowledge]
           /\ \A r \in All : is_audited(r) => Top.told[r] \in {Top.rows[r], "unknown"}
<1>1. Len(stack) >= 1 /\ stack \in Seq(Exact)
  BY DEF UnitInv
<1>2. Top \in Exact
  BY SMTT(60), <1>1, Pops DEF Top
<1> QED  BY <1>1, <1>2 DEF Exact

\* A level made of whole rows and of what is known of them.
LEMMA LevelExact ==
    ASSUME NEW rows, NEW told, Whole(rows), told \in [All -> Knowledge],
           \A r \in All : is_audited(r) => told[r] \in {rows[r], "unknown"}
    PROVE  [rows |-> rows, told |-> told] \in Exact
<1> DEFINE v == [rows |-> rows, told |-> told]
<1>1. v.rows = rows /\ v.told = told /\ v \in [rows : [All -> States], told : [All -> Knowledge]]
  BY DEF Whole
<1> HIDE DEF v
<1>2. v \in Exact
  BY <1>1 DEF Exact
<1> QED  BY <1>2 DEF v

\* The innermost level is replaced by an exact one.
LEMMA Replaces ==
    ASSUME UnitInv, NEW v \in Exact, stack' = Append(Front(stack), v), Whole(objects'), pending' = {},
           UNCHANGED <<session, depth>>
    PROVE  UnitInv'
<1>1. Len(stack) >= 1 /\ stack \in Seq(Exact) /\ Len(stack) \in Nat
  BY TopExact DEF UnitInv
<1>2. Front(stack) \in Seq(Exact) /\ Len(Front(stack)) = Len(stack) - 1
  BY <1>1, Pops
<1>3. stack' \in Seq(Exact) /\ Len(stack') = Len(stack)
  BY SMTT(60), <1>1, <1>2, Pushes
<1> QED  BY <1>3 DEF UnitInv

LEMMA FlushKeeps == ASSUME UnitInv, NEW suppressed \in BOOLEAN, flush(suppressed) PROVE UnitInv'
<1> DEFINE written == _write(Top.told, pending \cup _collect(Top.rows, objects))
           silent == [r \in All |-> IF objects[r] = Top.rows[r] THEN Top.told[r] ELSE "unknown"]
<1>1. Whole(objects) /\ pending = {}
  BY DEF UnitInv
<1>2. silent \in [All -> Knowledge] /\ \A r \in All : is_audited(r) => silent[r] \in {objects[r], "unknown"}
  BY ZenonT(60), TopExact DEF Knowledge
<1>3. ASSUME NEW r \in All
      PROVE  written[r] \in Knowledge /\ (is_audited(r) => written[r] \in {objects[r], "unknown"})
  <2> DEFINE E == _collect(Top.rows, objects)
             known == Top.told[r]
  <2>1. written[r] = Learn(known, r, E) /\ known \in Knowledge
    BY SMTT(60), <1>1, TopExact DEF _write
  <2>2. objects[r] \in States
    BY <1>1 DEF Whole
  <2>3. CASE known = "unknown"
    BY SMTT(60), <2>1, <2>3 DEF Learn, Knowledge
  <2>4. CASE known # "unknown" /\ is_audited(r)
    <3>1. known = Top.rows[r] /\ Whole(Top.rows)
      BY SMTT(60), <2>4, TopExact
    <3>2. Learn(Top.rows[r], r, E) = objects[r]
      BY SMTT(60), <1>1, <2>4, <3>1, FlushTells
    <3> HIDE DEF E, known
    <3> QED  BY SMTT(60), <2>1, <2>2, <3>1, <3>2 DEF Knowledge
  <2>5. CASE known # "unknown" /\ ~is_audited(r)
    <3>1. {e \in E : e.row = r} = {} /\ r \notin Links
      BY SMTT(60), <2>5, RowsAssumption DEF _collect, _links, is_audited
    <3> HIDE DEF E, known
    <3> QED  BY SMTT(60), <2>1, <2>5, <3>1 DEF Learn
  <2> QED  BY SMTT(60), <2>3, <2>4, <2>5
<1>4. written \in [All -> Knowledge]
  BY SMTT(60), <1>3 DEF _write
<1> HIDE DEF written, silent
<1>5. PICK told \in {written, silent} : stack' = Append(Front(stack), [rows |-> objects, told |-> told])
  BY DEF flush, written, silent
<1>6. [rows |-> objects, told |-> told] \in Exact
  BY SMTT(60), <1>1, <1>2, <1>3, <1>4, <1>5, LevelExact
<1>7. UNCHANGED <<session, depth, objects>> /\ pending' = {}
  BY DEF flush, vars
<1> QED  BY SMTT(60), <1>1, <1>5, <1>6, <1>7, Replaces

LEMMA BulkKeeps ==
    ASSUME UnitInv, NEW r \in Rows, NEW suppressed \in BOOLEAN, refuse_silent_bulk(r, suppressed) PROVE UnitInv'
<1> DEFINE told == [x \in All |-> IF objects'[x] = objects[x] THEN Top.told[x] ELSE "unknown"]
<1>1. /\ objects = Top.rows /\ objects' = Without(objects, r) /\ UNCHANGED <<session, depth, pending>>
      /\ stack' = Append(Front(stack), [rows |-> objects', told |-> told])
  BY DEF refuse_silent_bulk, Clean, vars
<1>2. Whole(objects') /\ pending = {}
  BY ZenonT(60), <1>1, WithoutWhole DEF UnitInv
<1>3. told \in [All -> Knowledge] /\ \A x \in All : is_audited(x) => told[x] \in {objects'[x], "unknown"}
  BY SMTT(60), <1>1, TopExact DEF Knowledge
<1> HIDE DEF told
<1>4. [rows |-> objects', told |-> told] \in Exact
  BY SMTT(60), <1>2, <1>3, LevelExact
<1> QED  BY SMTT(60), <1>1, <1>2, <1>4, Replaces

LEMMA ChangeKeeps == ASSUME UnitInv, NEW r \in Rows, change(r) PROVE UnitInv'
<1>1. Whole(objects')
  <2>1. Whole(objects) /\ r \in All /\ r \notin Links
    BY RowsAssumption DEF UnitInv, All
  <2>2. CASE objects' = Without(objects, r)
    BY SMTT(60), <2>1, <2>2, WithoutWhole
  <2>3. ASSUME NEW s \in {"fresh", "edited", "deleted"}, objects' = [objects EXCEPT ![r] = s]
        PROVE  Whole(objects')
    BY SMTT(60), <2>1, <2>3, RowsAssumption DEF Whole, States, All
  <2> QED  BY <2>2, <2>3 DEF change
<1> QED  BY <1>1 DEF change, UnitInv, vars

LEMMA RelateKeeps == ASSUME UnitInv, NEW l \in Links, relate(l) PROVE UnitInv'
<1>1. Whole(objects')
  BY RowsAssumption DEF relate, UnitInv, Whole, States, All
<1> QED  BY <1>1 DEF relate, UnitInv, vars

LEMMA EnterKeeps == ASSUME UnitInv, Begin \/ Savepoint, Enter PROVE UnitInv'
<1>1. stack \in Seq(Exact) /\ Top \in Exact /\ Len(stack) \in Nat
  BY TopExact DEF UnitInv
<1>2. stack' \in Seq(Exact) /\ Len(stack') = Len(stack) + 1
  BY <1>1, Pushes DEF Enter
<1>3. session' = "open" /\ depth' \in Nat /\ Len(stack') = depth' + 2
  BY <1>2 DEF UnitInv, Begin, Savepoint
<1> QED  BY ZenonT(60), <1>2, <1>3 DEF UnitInv, Enter

\* One level less: the one below, or the innermost in its place.
LEMMA ResolveKeeps ==
    ASSUME UnitInv, NEW event \in Events, EndSavepoint(event) \/ End(event), Resolve(event)
    PROVE  UnitInv'
<1>0. /\ depth \in Nat /\ session = "open"
      /\ \/ depth # 0 /\ depth' = depth - 1 /\ session' = "open"
         \/ depth = 0 /\ depth' = 0 /\ session' = "idle"
  <2>1. depth \in Nat /\ (session # "open" => depth = 0)
    BY DEF UnitInv
  <2>2. CASE EndSavepoint(event)
    BY <2>1, <2>2 DEF EndSavepoint
  <2>3. CASE End(event)
    BY ZenonT(60), <2>1, <2>3 DEF End
  <2> QED  BY <2>2, <2>3
<1>1. /\ stack \in Seq(Exact) /\ Top \in Exact /\ Len(stack) \in Nat /\ Whole(objects)
      /\ Len(stack) = depth + 2
  BY <1>0, TopExact DEF UnitInv
<1>2. /\ depth' \in Nat /\ (session' # "open" => depth' = 0)
      /\ (IF session' = "open" THEN depth' + 2 ELSE 1) = Len(stack) - 1
  BY SMTT(60), <1>0, <1>1
<1>3. Front(stack) \in Seq(Exact) /\ Len(Front(stack)) = Len(stack) - 1 /\ Len(stack) >= 2
  BY SMTT(60), <1>0, <1>1, Pops
<1>4. CASE Keep
  <2>1. Front(Front(stack)) \in Seq(Exact) /\ Len(Front(Front(stack))) = Len(stack) - 2
    BY SMTT(60), <1>1, <1>3, Pops
  <2>2. stack' \in Seq(Exact) /\ Len(stack') = Len(stack) - 1
    BY SMTT(60), <1>1, <1>4, <2>1, Pushes DEF Keep
  <2> QED  BY ZenonT(60), <1>1, <1>2, <1>4, <2>2 DEF UnitInv, Keep
<1>5. CASE Undo
  <2>1. stack' = Front(stack) /\ Last(stack') \in Exact
    BY SMTT(60), <1>1, <1>3, <1>5, Pops DEF Undo
  <2>2. Whole(objects') /\ pending' = {}
    BY SMTT(60), <1>5, <2>1 DEF Undo, Exact, _discard
  <2> QED  BY ZenonT(60), <1>2, <1>3, <2>1, <2>2 DEF UnitInv
<1> QED  BY SMTT(60), <1>4, <1>5 DEF Resolve

LEMMA CloseKeeps == ASSUME UnitInv, UnitClose PROVE UnitInv'
<1>1. stack \in Seq(Exact) /\ Len(stack) >= 1
  BY TopExact DEF UnitInv
<1>2. stack' \in Seq(Exact) /\ Len(stack') = 1 /\ Head(stack) \in Exact
  BY ZenonT(60), <1>1, Pops DEF UnitClose
<1>3. Whole(objects')
  BY <1>2 DEF UnitClose, Exact
<1> QED  BY SMTT(60), <1>2, <1>3 DEF UnitInv, UnitClose, Close

\* In every reachable state each level of the database, committed, in the
\* transaction or in a savepoint, has an exact trail.
THEOREM UnitInvariance == UnitSpec => []UnitInv
<1>1. UnitInit => UnitInv
  <2> SUFFICES ASSUME UnitInit PROVE UnitInv
    OBVIOUS
  <2> DEFINE told == [r \in All |-> IF r \in Excluded THEN "unknown" ELSE "absent"]
  <2>1. session = "idle" /\ depth = 0 /\ pending = {} /\ stack = << [rows |-> objects, told |-> told] >>
    BY DEF UnitInit, Init
  <2>2. Whole(objects)
    BY RowsAssumption DEF UnitInit, Whole, States, All
  <2>3. told \in [All -> Knowledge] /\ \A r \in All : is_audited(r) => told[r] \in {objects[r], "unknown"}
    BY Zenon DEF UnitInit, Knowledge, States, is_audited
  <2> HIDE DEF told
  <2>4. [rows |-> objects, told |-> told] \in Exact
    BY ZenonT(60), <2>2, <2>3, LevelExact
  <2> QED  BY SMTT(60), <2>1, <2>2, <2>4 DEF UnitInv
<1>2. UnitInv /\ [UnitNext]_unitVars => UnitInv'
  <2> SUFFICES ASSUME UnitInv, [UnitNext]_unitVars PROVE UnitInv'
    BY Zenon
  <2>1. CASE UNCHANGED <<session, depth, auditVars>>
    BY <2>1 DEF auditVars, UnitInv
  <2>2. UNCHANGED unitVars => UNCHANGED <<session, depth, auditVars>>
    BY Zenon DEF unitVars, vars
  <2>3. ASSUME NEW h \in Hooks, Register(h) \/ RemoveListeners(h), UNCHANGED auditVars PROVE UnitInv'
    BY <2>1, <2>3 DEF Register, RemoveListeners
  <2> QED  BY SMTT(60), <2>1, <2>2, <2>3, EnterKeeps, ResolveKeeps, CloseKeeps, ChangeKeeps, RelateKeeps, FlushKeeps,
              BulkKeeps DEF UnitNext
<1> QED  BY <1>1, <1>2, PTL DEF UnitSpec

\* The entries the audit listeners write tell the state of every row of an
\* audited table, for any rows, links, transactions and savepoints.
THEOREM TrailIsExact == UnitSpec => []TrailTellsAll
<1>1. UnitInv => TrailTellsAll
  BY DEF UnitInv, TrailTellsAll, Exact
<1> QED  BY <1>1, UnitInvariance, PTL

\* The unit of work adds nothing to the session its hooks see, so that what
\* holds of the hooks holds with it.
THEOREM HooksRefined == UnitSpec => Spec
<1>1. UnitInit => Init
  BY Zenon DEF UnitInit
<1>2. [UnitNext]_unitVars => [Next]_vars
  <2> SUFFICES ASSUME UnitNext PROVE Next \/ UNCHANGED vars
    BY DEF unitVars
  <2> QED  BY Zenon DEF UnitNext, Next, UnitClose, change, relate, flush, refuse_silent_bulk
<1> QED  BY <1>1, <1>2, PTL DEF UnitSpec, Spec

\* With the unit of work too, a session calls every hook once.
THEOREM UnitFiresOnce == UnitSpec => []FiresOnceResolved
BY HooksRefined, FiresOnce, PTL

=============================================================================
