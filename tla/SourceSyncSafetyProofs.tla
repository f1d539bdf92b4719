------------------------ MODULE SourceSyncSafetyProofs ------------------------
(***************************************************************************)
(* Safety theorems about SourceSync for any number of sources, threads,    *)
(* syncs, edits and restarts: what a sync leaves in the state file, what a *)
(* push delivers, and which conflicts are seen.                            *)
(***************************************************************************)
EXTENDS SourceSyncProofs

-----------------------------------------------------------------------------
(* What a thread does in one step, as far as the state file is concerned.  *)

\* The thread turns to an update of the state file, which records rev, if
\* anything, for the direction it ends.
Starts(k, k2, rev) ==
    /\ k2.pc = "load" /\ k2.buf = k.buf /\ k2.src = k.src /\ k2.orig \in {Home, k.orig}
    /\ k2.next = "resolve" => Mode(k.src) = "git"
    /\ \A i \in DOMAIN k2.upd :
          /\ k2.upd[i].rev = None \/ (k2.upd[i].rev = rev /\ k2.upd[i].dir = Head(k.legs))
          /\ k2.upd[i].status = "running" => k2.next # "done" /\ k2.upd[i].dir = Head(k2.legs)
    /\ k.pc \in InLeg \ {"check"} => \E i \in DOMAIN k2.upd : k2.upd[i].dir = Head(k.legs)

GitPC == {"resolve", "chdir", "commit", "push", "head", "restore"}

\* It stays within a direction, and turns to git for a source of mode git only.
GoesOn(k, k2) ==
    /\ k.pc \in InLeg \ {"check"} /\ k2.pc \in InLeg \ {"check"}
    /\ k2.legs = k.legs /\ k2.src = k.src /\ k2.upd = k.upd /\ k2.buf = k.buf /\ k2.next = k.next
    /\ k2.orig \in {k.orig, cwd}
    /\ k2.pc \in GitPC => k.pc \in GitPC \/ Mode(k.src) = "git"

\* Or it makes the update.
Loads(k, k2) ==
    /\ k.pc = "load" /\ k.upd # <<>>
    /\ k2 = [k EXCEPT !.pc = "truncate", !.upd = Tail(k.upd), !.buf = Apply(state, k.src, Head(k.upd))]

Saves(k, k2) ==
    /\ k.pc = "save"
    /\ k2.legs = k.legs /\ k2.src = k.src /\ k2.upd = k.upd /\ k2.buf = NoState /\ k2.orig = k.orig
    /\ \/ k.upd = <<>> /\ k2.pc = k.next /\ k2.next = "idle"
       \/ k.upd # <<>> /\ k2.pc = "load" /\ k2.next = k.next

\* Or it cannot write the file: it makes the direction a failed one, or ends.
Drops(k, k2) ==
    /\ k.pc = "load" /\ k2.buf = k.buf /\ k2.src = k.src /\ k2.orig = k.orig
    /\ \/ k2.pc = "load" /\ k2.next = "done"
       \/ k2.pc = "done" /\ k2.next = "idle"
    /\ \A i \in DOMAIN k2.upd : k2.upd[i].rev = None

LEMMA UpdatingFields ==
    ASSUME NEW k \in ThreadRec, NEW u, NEW next
    PROVE  LET k2 == Updating(k, u, next)
           IN  /\ k2.pc = "load" /\ k2.buf = k.buf /\ k2.src = k.src /\ k2.orig = k.orig
               /\ k2.upd = u /\ k2.next = next /\ k2.legs = k.legs
  BY DEF Updating, ThreadRec

LEMMA UpdFields ==
    ASSUME NEW d, NEW st, NEW rev
    PROVE  Upd(d, st, rev).dir = d /\ Upd(d, st, rev).status = st /\ Upd(d, st, rev).rev = rev
  BY DEF Upd

LEMMA LegEndsFields ==
    ASSUME NEW k \in ThreadRec, k.legs # <<>>
    PROVE  LegEnds(k).buf = k.buf /\ LegEnds(k).orig = Home /\ LegEnds(k).upd = k.upd
  BY DEF LegEnds, ThreadRec

\* A direction begins after the updates u.
LEMMA DirectionFields ==
    ASSUME NEW k \in ThreadRec, NEW u \in Seq(Update)
    PROVE  LET k2 == _execute_sync_direction(k, u)
           IN  /\ k2.pc = "load" /\ k2.buf = k.buf /\ k2.src = k.src /\ k2.orig = k.orig
               /\ k2.upd = Append(u, Upd(Head(k.legs), "running", None)) /\ k2.legs = k.legs
               /\ k2.next = IF Mode(k.src) = "git" THEN "resolve" ELSE "clear"
<1> DEFINE us == Append(u, Upd(Head(k.legs), "running", None))
           next == IF Mode(k.src) = "git" THEN "resolve" ELSE "clear"
<1>1. _execute_sync_direction(k, u) = Updating(k, us, next)
  BY DEF _execute_sync_direction
<1> HIDE DEF us, next
<1>2. LET k2 == Updating(k, us, next)
      IN  /\ k2.pc = "load" /\ k2.buf = k.buf /\ k2.src = k.src /\ k2.orig = k.orig
          /\ k2.upd = us /\ k2.next = next /\ k2.legs = k.legs
  BY UpdatingFields
<1> QED
  BY <1>1, <1>2 DEF us, next

LEMMA DirectionStarts ==
    ASSUME NEW k \in ThreadRec, k.pc \notin InLeg \ {"check"}, NEW rev
    PROVE  Starts(k, _execute_sync_direction(k, <<>>), rev)
<1> DEFINE k2 == _execute_sync_direction(k, <<>>)
           first == Upd(Head(k.legs), "running", None)
<1>1. <<>> \in Seq(Update) /\ Append(<<>>, first) = <<first>>
  OBVIOUS
<1>2. /\ k2.pc = "load" /\ k2.buf = k.buf /\ k2.src = k.src /\ k2.orig = k.orig
      /\ k2.upd = <<first>> /\ k2.legs = k.legs
      /\ k2.next = IF Mode(k.src) = "git" THEN "resolve" ELSE "clear"
  BY <1>1, DirectionFields
<1>3. first.dir = Head(k.legs) /\ first.status = "running" /\ first.rev = None
  BY UpdFields
<1> HIDE DEF first, k2
<1>4. ASSUME NEW i \in DOMAIN k2.upd PROVE k2.upd[i] = first
  BY <1>2, <1>4
<1>5. Starts(k, k2, rev)
  BY <1>2, <1>3, <1>4 DEF Starts
<1> QED
  BY <1>5 DEF k2

LEMMA LegOkStarts ==
    ASSUME NEW k \in ThreadRec, k.legs # <<>>, NEW rev \in Content \cup {None}
    PROVE  Starts(k, LegOk(k, rev), rev)
<1> DEFINE e == LegEnds(k)
           end == Upd(Head(k.legs), "ok", rev)
           first == Upd(Head(e.legs), "running", None)
           k2 == LegOk(k, rev)
<1>1. e \in ThreadRec /\ e.src = k.src /\ e.buf = k.buf /\ e.orig = Home /\ Head(k.legs) \in Way
  BY LegEndsType, LegEndsFields
<1>2. /\ end.dir = Head(k.legs) /\ end.status = "ok" /\ end.rev = rev
      /\ first.dir = Head(e.legs) /\ first.status = "running" /\ first.rev = None
  BY UpdFields
<1>3. end \in Update
  BY <1>1, UpdType
<1>4. <<end>> \in Seq(Update) /\ Append(<<end>>, first) = <<end, first>>
  <2> HIDE DEF end, first
  <2> DEFINE pair == Append(<<end>>, first)
  <2>1. <<end>> \in Seq({end, first}) /\ first \in {end, first} /\ Len(<<end>>) = 1 /\ <<end>>[1] = end
    OBVIOUS
  <2>3. pair \in Seq({end, first}) /\ Len(pair) = 2 /\ pair[1] = end /\ pair[2] = first
    BY <2>1, AppendProperties
  <2> HIDE DEF pair
  <2>4. pair = <<end, first>>
    BY <2>3
  <2>2. Append(<<end>>, first) = <<end, first>>
    BY <2>4 DEF pair
  <2> QED
    BY <1>3, <2>2
<1>5. k2 = IF Len(k.legs) = 1 THEN Updating(e, <<end>>, "done") ELSE _execute_sync_direction(e, <<end>>)
  BY DEF LegOk
<1> HIDE DEF e, end, first, k2
<1>6. CASE Len(k.legs) = 1
  <2>1. k2.pc = "load" /\ k2.buf = k.buf /\ k2.src = k.src /\ k2.orig = Home /\ k2.upd = <<end>> /\ k2.next = "done"
    BY <1>1, <1>5, <1>6, UpdatingFields
  <2>2. 1 \in DOMAIN k2.upd /\ k2.upd[1] = end /\ \A i \in DOMAIN k2.upd : k2.upd[i] = end
    BY <2>1
  <2> QED
    BY <1>2, <2>1, <2>2 DEF Starts, k2
<1>7. CASE Len(k.legs) # 1
  <2>1. /\ k2.pc = "load" /\ k2.buf = k.buf /\ k2.src = k.src /\ k2.orig = Home
        /\ k2.upd = <<end, first>> /\ k2.legs = e.legs
        /\ k2.next = IF Mode(k.src) = "git" THEN "resolve" ELSE "clear"
    <3>1. k2 = _execute_sync_direction(e, <<end>>)
      BY <1>5, <1>7
    <3>2. /\ k2.pc = "load" /\ k2.buf = e.buf /\ k2.src = e.src /\ k2.orig = e.orig
          /\ k2.upd = Append(<<end>>, Upd(Head(e.legs), "running", None)) /\ k2.legs = e.legs
          /\ k2.next = IF Mode(e.src) = "git" THEN "resolve" ELSE "clear"
      BY <1>1, <1>4, <3>1, DirectionFields
    <3> QED
      BY <1>1, <1>4, <3>2 DEF first
  <2>2. 1 \in DOMAIN k2.upd /\ k2.upd[1] = end /\ \A i \in DOMAIN k2.upd : k2.upd[i] \in {end, first}
    BY <2>1
  <2>3. ASSUME NEW i \in DOMAIN k2.upd
        PROVE  /\ k2.upd[i].rev = None \/ (k2.upd[i].rev = rev /\ k2.upd[i].dir = Head(k.legs))
               /\ k2.upd[i].status = "running" => k2.next # "done" /\ k2.upd[i].dir = Head(k2.legs)
    BY <1>2, <2>1, <2>2, <2>3
  <2>4. \E i \in DOMAIN k2.upd : k2.upd[i].dir = Head(k.legs)
    BY <1>2, <2>2
  <2> QED
    BY <2>1, <2>3, <2>4 DEF Starts, k2
<1> QED
  BY <1>6, <1>7

LEMMA LegFailsStarts ==
    ASSUME NEW k \in ThreadRec, k.legs # <<>>, NEW rev
    PROVE  Starts(k, LegFails(k), rev)
<1> DEFINE e == [LegEnds(k) EXCEPT !.legs = <<>>, !.ok = FALSE]
           end == Upd(Head(k.legs), "failed", None)
           k2 == LegFails(k)
<1>1. e \in ThreadRec /\ e.src = k.src /\ e.buf = k.buf /\ e.orig = Home
  <2> DEFINE l == LegEnds(k)
  <2>1. l \in ThreadRec /\ l.src = k.src /\ l.buf = k.buf /\ l.orig = Home
    BY LegEndsType, LegEndsFields
  <2>2. <<>> \in Seq(Way)
    OBVIOUS
  <2> HIDE DEF l
  <2>3. [l EXCEPT !.legs = <<>>, !.ok = FALSE] \in ThreadRec
    BY <2>1, <2>2 DEF ThreadRec
  <2>4. LET m == [l EXCEPT !.legs = <<>>, !.ok = FALSE] IN m.src = l.src /\ m.buf = l.buf /\ m.orig = l.orig
    BY <2>1 DEF ThreadRec
  <2> QED
    BY <2>1, <2>3, <2>4 DEF l
<1>2. end.dir = Head(k.legs) /\ end.status = "failed" /\ end.rev = None
  BY UpdFields
<1>3. k2 = Updating(e, <<end>>, "done")
  BY DEF LegFails
<1> HIDE DEF e, end, k2
<1>4. k2.pc = "load" /\ k2.buf = k.buf /\ k2.src = k.src /\ k2.orig = Home /\ k2.upd = <<end>> /\ k2.next = "done"
  BY <1>1, <1>3, UpdatingFields
<1>5. 1 \in DOMAIN k2.upd /\ k2.upd[1] = end /\ \A i \in DOMAIN k2.upd : k2.upd[i] = end
  BY <1>4
<1> QED
  BY <1>2, <1>4, <1>5 DEF Starts, k2

\* What the direction ending here records: the revision of its target.
Recording(t, rev) ==
    LET k == thread[t]
    IN  \/ k.pc = "hash" /\ rev = (IF Push(k) THEN ext[k.src].tree ELSE store[k.src])
        \/ k.pc = "restore" /\ rev = k.rev
        \/ rev = None

LEMMA StepForms ==
    ASSUME SyncAssumption, TypeInv, NEW t \in Thread, WorkStep(t)
    PROVE  \E k2 \in ThreadRec :
              /\ Become(t, k2) /\ GoodThread(k2) /\ Atwork(thread[t]) /\ SameSync(thread[t], k2)
              /\ \/ /\ \E rev \in Content \cup {None} : Recording(t, rev) /\ Starts(thread[t], k2, rev)
                    /\ thread[t].pc \in InLeg /\ state' = state
                 \/ GoesOn(thread[t], k2) /\ state' = state
                 \/ Loads(thread[t], k2) /\ state' = state
                 \/ thread[t].pc = "truncate" /\ k2 = [thread[t] EXCEPT !.pc = "save"] /\ state' = NoState
                 \/ Saves(thread[t], k2) /\ state' = thread[t].buf
                 \/ Drops(thread[t], k2) /\ state' \in {state, NoState} /\ unsaved'
<1> DEFINE k == thread[t]
<1>0. k \in ThreadRec /\ GoodThread(k) /\ thread \in [Thread -> ThreadRec]
      /\ store \in [Source -> Content]
      /\ ext \in [Source -> [mode : Modes, tree : Content]]
  BY DEF TypeInv, TypeOK
<1>1. PICK k2 \in ThreadRec : Become(t, k2) /\ GoodThread(k2) /\ Atwork(k) /\ SameSync(k, k2)
  BY WorkStepThread
<1>2. \A x : Become(t, x) => x = k2
  BY <1>0, <1>1 DEF Become
<1>3. k.pc \in InLeg => k.legs # <<>> /\ k.src \in Source
  BY <1>0 DEF GoodThread, InLeg
<1>4. k.pc \in InUpdate => k.src \in Source /\ (k.pc = "load" => k.upd # <<>>)
  BY <1>0 DEF GoodThread, InUpdate
<1> HIDE DEF k
<1>5. CASE CheckConflict(t)
  <2> DEFINE e == [k EXCEPT !.legs = <<>>, !.ok = FALSE]
             a == Upd("push", "failed", None)
             b == Upd("pull", "failed", None)
             x == Updating(e, <<a, b>>, "done")
  <2>1. k.pc = "check" /\ state' = state /\ (k2 = x \/ k2 = _execute_sync_direction(k, <<>>))
    BY <1>2, <1>5 DEF CheckConflict, k
  <2>2. e \in ThreadRec /\ e.src = k.src /\ e.buf = k.buf /\ e.orig = k.orig
    <3>1. <<>> \in Seq(Way)
      OBVIOUS
    <3> QED
      BY <1>0, <3>1 DEF ThreadRec
  <2>3. a.status = "failed" /\ a.rev = None /\ b.status = "failed" /\ b.rev = None
    BY UpdFields
  <2> HIDE DEF e, a, b
  <2>4. x.pc = "load" /\ x.buf = k.buf /\ x.src = k.src /\ x.orig = k.orig /\ x.upd = <<a, b>> /\ x.next = "done"
    BY <2>2, UpdatingFields
  <2> HIDE DEF x
  <2>5. \A i \in DOMAIN x.upd : x.upd[i] \in {a, b}
    BY <2>4
  <2>6. Starts(k, x, None)
    BY <2>1, <2>3, <2>4, <2>5 DEF Starts
  <2>7. Starts(k, _execute_sync_direction(k, <<>>), None)
    BY <1>0, <2>1, DirectionStarts
  <2>8. Recording(t, None) /\ None \in Content \cup {None} /\ k.pc \in InLeg
    BY <2>1 DEF Recording, InLeg
  <2> QED
    BY <1>1, <2>1, <2>6, <2>7, <2>8 DEF k
<1>6. CASE Fail(t)
  <2>1. k2 = LegFails(k) /\ state' = state /\ k.pc \in InLeg
    BY <1>2, <1>6 DEF Fail, InLeg, k
  <2>2. Starts(k, k2, None) /\ Recording(t, None) /\ None \in Content \cup {None}
    BY <1>0, <1>3, <2>1, LegFailsStarts DEF Recording
  <2> QED
    BY <1>1, <2>1, <2>2 DEF k
<1>7. CASE _compute_revision(t)
  <2> DEFINE rev == IF Push(k) THEN ext[k.src].tree ELSE store[k.src]
  <2>1. k.pc = "hash" /\ k2 = LegOk(k, rev) /\ state' = state /\ k.pc \in InLeg
    BY <1>2, <1>7 DEF _compute_revision, InLeg, k
  <2>2. rev \in Content \cup {None}
    BY <1>0, <1>3, <2>1
  <2>3. Recording(t, rev)
    BY <2>1 DEF Recording, k
  <2> HIDE DEF rev
  <2>4. Starts(k, k2, rev)
    BY <1>0, <1>3, <2>1, <2>2, LegOkStarts
  <2> QED
    BY <1>1, <2>1, <2>2, <2>3, <2>4 DEF k
<1>8. CASE Restore(t)
  <2>1. k.pc = "restore" /\ k2 \in {LegOk(k, k.rev), LegFails(k)} /\ state' = state /\ k.pc \in InLeg
    BY <1>2, <1>8 DEF Restore, InLeg, k
  <2>2. k.rev \in Content \cup {None}
    BY <1>0 DEF ThreadRec
  <2>3. Starts(k, k2, k.rev)
    BY <1>0, <1>3, <2>1, <2>2, LegOkStarts, LegFailsStarts
  <2>4. Recording(t, k.rev)
    BY <2>1 DEF Recording, k
  <2> QED
    BY <1>1, <2>1, <2>2, <2>3, <2>4 DEF k
<1>9. CASE Clear(t) \/ Fill(t) \/ ResolveGit(t) \/ Chdir(t) \/ Commit(t) \/ GitPush(t) \/ RevParse(t) \/ GitFails(t)
  <2>1. CASE Clear(t) \/ ResolveGit(t) \/ Commit(t) \/ GitPush(t)
    <3>1. PICK pc \in InLeg \ {"check"} : k2 = [k EXCEPT !.pc = pc] /\ (pc \in GitPC => k.pc \in GitPC)
      BY <1>2, <2>1 DEF Clear, ResolveGit, Commit, GitPush, InLeg, GitPC, k
    <3>2. k.pc \in InLeg \ {"check"} /\ state' = state
      BY <2>1 DEF Clear, ResolveGit, Commit, GitPush, InLeg, k
    <3>3. GoesOn(k, k2)
      BY <1>0, <3>1, <3>2 DEF GoesOn, ThreadRec
    <3> QED
      BY <1>1, <3>2, <3>3 DEF k
  <2>2. CASE Fill(t)
    <3> DEFINE copied == IF Push(k) THEN From(k) ELSE None
               pc == IF Mode(k.src) = "git" THEN "chdir" ELSE "hash"
    <3>1. k2 = [k EXCEPT !.copied = copied, !.pc = pc]
      BY <1>2, <2>2 DEF Fill, k
    <3>2. /\ pc \in InLeg \ {"check"} /\ k.pc \in InLeg \ {"check"} /\ state' = state
          /\ pc \in GitPC => Mode(k.src) = "git"
      BY <2>2 DEF Fill, InLeg, GitPC, k
    <3> HIDE DEF copied, pc
    <3>3. GoesOn(k, k2)
      BY <1>0, <3>1, <3>2 DEF GoesOn, ThreadRec
    <3> QED
      BY <1>1, <3>2, <3>3 DEF k
  <2>3. CASE Chdir(t)
    <3> DEFINE pc == IF Push(k) THEN "commit" ELSE "head"
    <3>1. k2 = [k EXCEPT !.orig = cwd, !.pc = pc]
      BY <1>2, <2>3 DEF Chdir, k
    <3>2. pc \in InLeg \ {"check"} /\ k.pc \in InLeg \ {"check"} /\ k.pc \in GitPC /\ state' = state
      BY <2>3 DEF Chdir, InLeg, GitPC, k
    <3> HIDE DEF pc
    <3>3. GoesOn(k, k2)
      BY <1>0, <3>1, <3>2 DEF GoesOn, ThreadRec
    <3> QED
      BY <1>1, <3>2, <3>3 DEF k
  <2>4. CASE RevParse(t)
    <3>1. k2 = [k EXCEPT !.pc = "restore", !.rev = clone[cwd].head]
      BY <1>2, <2>4 DEF RevParse, k
    <3>2. "restore" \in InLeg \ {"check"} /\ k.pc \in InLeg \ {"check"} /\ k.pc \in GitPC /\ state' = state
      BY <2>4 DEF RevParse, InLeg, GitPC, k
    <3>3. GoesOn(k, k2)
      BY <1>0, <3>1, <3>2 DEF GoesOn, ThreadRec
    <3> QED
      BY <1>1, <3>2, <3>3 DEF k
  <2>5. CASE GitFails(t)
    <3>1. k2 = [k EXCEPT !.pc = "restore", !.ok = FALSE]
      BY <1>2, <2>5 DEF GitFails, k
    <3>2. "restore" \in InLeg \ {"check"} /\ k.pc \in InLeg \ {"check"} /\ k.pc \in GitPC /\ state' = state
      BY <2>5 DEF GitFails, InLeg, GitPC, k
    <3>3. GoesOn(k, k2)
      BY <1>0, <3>1, <3>2 DEF GoesOn, ThreadRec
    <3> QED
      BY <1>1, <3>2, <3>3 DEF k
  <2> QED
    BY <1>9, <2>1, <2>2, <2>3, <2>4, <2>5
<1>10. CASE _load_sync_state(t)
  <2>1. /\ k.pc = "load" /\ state' = state
        /\ k2 = [k EXCEPT !.pc = "truncate", !.upd = Tail(k.upd), !.buf = Apply(state, k.src, Head(k.upd))]
    BY <1>0, <1>2, <1>10 DEF _load_sync_state, ThreadRec, k
  <2>2. Loads(k, k2)
    BY <1>4, <2>1 DEF Loads, InUpdate
  <2> QED
    BY <1>1, <2>1, <2>2 DEF k
<1>11. CASE Truncate(t)
  <2>1. k.pc = "truncate" /\ k2 = [k EXCEPT !.pc = "save"] /\ state' = NoState
    BY <1>2, <1>11 DEF Truncate, k
  <2> QED
    BY <1>1, <2>1 DEF k
<1>12. CASE _save_sync_state(t)
  <2> DEFINE pc == IF k.upd = <<>> THEN k.next ELSE "load"
             next == IF k.upd = <<>> THEN "idle" ELSE k.next
  <2>1. k.pc = "save" /\ state' = k.buf /\ k2 = [k EXCEPT !.buf = NoState, !.pc = pc, !.next = next]
    BY <1>0, <1>2, <1>12 DEF _save_sync_state, ThreadRec, k
  <2>2. /\ \/ k.upd = <<>> /\ pc = k.next /\ next = "idle"
           \/ k.upd # <<>> /\ pc = "load" /\ next = k.next
    OBVIOUS
  <2> HIDE DEF pc, next
  <2>3. Saves(k, k2)
    BY <1>0, <2>1, <2>2 DEF Saves, ThreadRec
  <2> QED
    BY <1>1, <2>1, <2>3 DEF k
<1>13. CASE SaveFails(t)
  <2> DEFINE e == [k EXCEPT !.legs = <<>>, !.ok = FALSE]
             u == Upd(Head(k.upd).dir, "failed", None)
             again == Updating(e, <<u>>, "done")
             ends == [e EXCEPT !.upd = <<>>, !.next = "idle", !.pc = "done"]
  <2>1. k.pc = "load" /\ state' \in {state, NoState} /\ unsaved' /\ k2 \in {again, ends}
    BY <1>2, <1>13 DEF SaveFails, k
  <2>2. e \in ThreadRec /\ e.src = k.src /\ e.buf = k.buf /\ e.orig = k.orig
    <3>1. <<>> \in Seq(Way)
      OBVIOUS
    <3> QED
      BY <1>0, <3>1 DEF ThreadRec
  <2>3. u.rev = None
    BY UpdFields
  <2> HIDE DEF e, u
  <2>4. /\ again.pc = "load" /\ again.buf = k.buf /\ again.src = k.src /\ again.orig = k.orig
        /\ again.upd = <<u>> /\ again.next = "done"
    BY <2>2, UpdatingFields
  <2>5. /\ ends.pc = "done" /\ ends.buf = k.buf /\ ends.src = k.src /\ ends.orig = k.orig
        /\ ends.upd = <<>> /\ ends.next = "idle"
    BY <2>2 DEF ThreadRec
  <2> HIDE DEF again, ends
  <2>6. \A i \in DOMAIN again.upd : again.upd[i].rev = None
    BY <2>3, <2>4
  <2>7. Drops(k, again) /\ Drops(k, ends)
    BY <2>1, <2>4, <2>5, <2>6 DEF Drops
  <2> QED
    BY <1>1, <2>1, <2>7 DEF k
<1> QED
  BY <1>5, <1>6, <1>7, <1>8, <1>9, <1>10, <1>11, <1>12, <1>13 DEF WorkStep

-----------------------------------------------------------------------------
(* One sync at a time, until two overlap.                                  *)

LEMMA SpawnForm ==
    ASSUME SyncAssumption, TypeInv, NEW t \in Thread, NEW s \in Source, NEW isJob \in BOOLEAN,
           NEW d \in {"push", "pull", "both"}, Spawn(t, s, isJob, d)
    PROVE  /\ thread[t] = NoThread /\ overlapped' = (overlapped \/ \E u \in Thread : Syncing(u))
           /\ UNCHANGED <<store, ext, clone, state, cwd, edits, restarts, edited, refreshed, unsaved>>
           /\ \E k2 \in ThreadRec :
                 /\ Become(t, k2) /\ Atwork(k2) /\ k2.src = s /\ k2.buf = NoState /\ k2.orig = Home
                 /\ \/ k2.pc = "check" /\ k2.upd = <<>> /\ k2.next = "idle"
                    \/ \E k \in ThreadRec : k.pc = "idle" /\ k.src = s /\ k.orig = Home /\ Starts(k, k2, None)
<1> DEFINE new == [NoThread EXCEPT !.src = s, !.job = isJob, !.legs = Legs(d)]
           checking == [new EXCEPT !.pc = "check"]
           starting == _execute_sync_direction(new, <<>>)
<1>1. /\ thread[t] = NoThread /\ overlapped' = (overlapped \/ \E u \in Thread : Syncing(u))
      /\ Become(t, IF d = "both" THEN checking ELSE starting)
      /\ UNCHANGED <<store, ext, clone, state, cwd, edits, restarts, edited, refreshed, unsaved>>
  BY DEF Spawn
<1>2. PICK k2 \in ThreadRec : Become(t, k2) /\ Atwork(k2) /\ k2.src = s
  BY SpawnThread
<1>3. k2 = IF d = "both" THEN checking ELSE starting
  BY <1>1, <1>2 DEF Become, TypeInv, TypeOK
<1>4. Legs(d) \in Seq(Way)
  <2>1. "push" \in Way /\ "pull" \in Way
    BY DEF Way
  <2>2. <<"pull", "push">> \in Seq(Way) /\ <<"push">> \in Seq(Way) /\ <<"pull">> \in Seq(Way)
    BY <2>1
  <2>3. Legs(d) = <<"pull", "push">> \/ Legs(d) = <<"push">> \/ Legs(d) = <<"pull">>
    BY DEF Legs
  <2> QED
    BY <2>2, <2>3, Zenon
<1>5. new \in ThreadRec /\ new.src = s
  <2> HIDE DEF Legs
  <2> QED
    BY <1>4, NoThreadType DEF ThreadRec
<1>6. new.pc = "idle" /\ new.buf = NoState /\ new.orig = Home /\ new.upd = <<>> /\ new.next = "idle"
  BY DEF NoThread
<1> HIDE DEF new
<1>7. CASE d = "both"
  <2>1. k2.pc = "check" /\ k2.upd = <<>> /\ k2.next = "idle" /\ k2.buf = NoState /\ k2.orig = Home
    BY <1>3, <1>5, <1>6, <1>7 DEF ThreadRec
  <2> QED
    BY <1>1, <1>2, <2>1
<1>8. CASE d # "both"
  <2>1. "idle" \notin InLeg \ {"check"}
    BY DEF InLeg
  <2>2. Starts(new, k2, None)
    BY <1>3, <1>5, <1>6, <1>8, <2>1, DirectionStarts
  <2>3. k2.buf = NoState /\ k2.orig = Home
    BY <1>6, <2>2 DEF Starts
  <2> QED
    BY <1>1, <1>2, <1>5, <1>6, <2>2, <2>3
<1> QED
  BY <1>7, <1>8

\* A sync starts, and works, and ends; its clean-up ends as well.
Spawns == \E t \in Thread, s \in Source, isJob \in BOOLEAN, d \in {"push", "pull", "both"} :
              Spawn(t, s, isJob, d)
Ends(t) == _sync_worker(t) \/ cleanup_job(t)

LEMMA NextForms ==
    ASSUME SyncAssumption, [Next]_vars
    PROVE  \/ Spawns
           \/ \E t \in Thread : WorkStep(t) \/ Ends(t)
           \/ \E s \in Source : EditStorage(s) \/ EditExternal(s) \/ Refresh(s)
           \/ Restart
           \/ UNCHANGED vars
<1>1. ASSUME NEW t \in Thread, NEW s \in Source, start_sync(t, s) \/ api_sync_project_source(t, s)
      PROVE  Spawns
  BY <1>1 DEF start_sync, api_sync_project_source, SyncAssumption, Spawns
<1> QED
  BY <1>1 DEF Next, SyncStep, WorkStep, Ends

LEMMA SyncingIs ==
    /\ \A t \in Thread : Syncing(t) <=> Atwork(thread[t])
    /\ \A t \in Thread : Syncing(t)' <=> Atwork(thread'[t])
  BY DEF Syncing, Atwork

LEMMA WorkFrame ==
    ASSUME NEW t \in Thread, WorkStep(t)
    PROVE  UNCHANGED <<job, syncs, edits, restarts, overlapped>> /\ unsaved' \in {unsaved, TRUE}
<1>1. CASE CheckConflict(t) \/ _load_sync_state(t) \/ Truncate(t) \/ _save_sync_state(t) \/ SaveFails(t)
  BY <1>1 DEF CheckConflict, _load_sync_state, Truncate, _save_sync_state, SaveFails
<1>2. CASE Clear(t) \/ Fill(t) \/ _compute_revision(t) \/ Fail(t)
  BY <1>2 DEF Clear, Fill, _compute_revision, Fail
<1>3. CASE ResolveGit(t) \/ Chdir(t) \/ Commit(t) \/ GitPush(t) \/ RevParse(t) \/ GitFails(t) \/ Restore(t)
  BY <1>3 DEF ResolveGit, Chdir, Commit, GitPush, RevParse, GitFails, Restore
<1> QED
  BY <1>1, <1>2, <1>3 DEF WorkStep

AtMostOne == ~overlapped => \A t, u \in Thread : Syncing(t) /\ Syncing(u) => t = u

LEMMA AtMostOneStep == ASSUME SyncAssumption, TypeInv, AtMostOne, [Next]_vars PROVE AtMostOne'
<1>0. thread \in [Thread -> ThreadRec]
  BY DEF TypeInv, TypeOK
<1>1. CASE Spawns
  <2>1. PICK t \in Thread, s \in Source, isJob \in BOOLEAN, d \in {"push", "pull", "both"} :
            Spawn(t, s, isJob, d)
    BY <1>1 DEF Spawns
  <2>2. overlapped' = (overlapped \/ \E u \in Thread : Syncing(u))
    BY <2>1, SpawnForm
  <2>3. PICK k2 \in ThreadRec : Become(t, k2)
    BY <2>1, SpawnForm
  <2> QED
    BY <1>0, <2>2, <2>3, SyncingIs DEF AtMostOne, Become
<1>2. ASSUME NEW t \in Thread, WorkStep(t)
      PROVE  AtMostOne'
  <2>1. PICK k2 \in ThreadRec : Become(t, k2) /\ Atwork(thread[t])
    BY <1>2, WorkStepThread
  <2>2. overlapped' = overlapped
    BY <1>2, WorkFrame
  <2> QED
    BY <1>0, <2>1, <2>2, SyncingIs DEF AtMostOne, Become
<1>3. ASSUME NEW t \in Thread, Ends(t)
      PROVE  AtMostOne'
  <2>1. PICK k2 \in ThreadRec : Become(t, k2) /\ ~Atwork(k2)
    BY <1>3, EndOfSync DEF Ends
  <2>2. overlapped' = overlapped
    BY <1>3 DEF Ends, _sync_worker, cleanup_job
  <2> QED
    BY <1>0, <2>1, <2>2, SyncingIs DEF AtMostOne, Become
<1>4. ASSUME NEW s \in Source, EditStorage(s) \/ EditExternal(s) \/ Refresh(s)
      PROVE  AtMostOne'
  <2>1. UNCHANGED <<thread, overlapped>>
    BY <1>4 DEF EditStorage, EditExternal, Refresh
  <2> QED
    BY <2>1, SyncingIs DEF AtMostOne
<1>5. CASE Restart
  <2>1. \A t \in Thread : thread'[t] = NoThread
    BY <1>5 DEF Restart
  <2> QED
    BY <2>1, NoThreadType, SyncingIs DEF AtMostOne
<1>6. CASE UNCHANGED vars
  <2>1. UNCHANGED <<thread, overlapped>>
    BY <1>6 DEF vars
  <2> QED
    BY <2>1, SyncingIs DEF AtMostOne
<1> QED
  BY <1>1, <1>2, <1>3, <1>4, <1>5, <1>6, NextForms

-----------------------------------------------------------------------------
(* What a sync leaves in the state file.                                   *)

\* What the file holds once the update under way is written.
Held(k) == IF k.pc \in {"truncate", "save"} THEN k.buf ELSE state

\* The direction at work, and the ones the updates under way change.
Leaves(k) == IF (k.pc \in InUpdate /\ k.next # "done") \/ k.pc \in InLeg \ {"check"}
             THEN {Head(k.legs)} ELSE {}
Updates(k, d) == \E i \in DOMAIN k.upd : k.upd[i].dir = d

\* A status running in the file is that of the direction at work, or an update
\* of it is still to be made; and none of these makes another one running.
SettlesAll(k) ==
    /\ \A i \in DOMAIN k.upd : k.upd[i].status = "running" => k.upd[i].dir \in Leaves(k)
    /\ k.pc \notin InUpdate => k.upd = <<>>
    /\ \A s \in Source, d \in Way :
          Held(k)[s][d].status = "running" => s = k.src /\ (d \in Leaves(k) \/ Updates(k, d))

SettleInv ==
    restarts = 0 /\ ~overlapped /\ ~unsaved =>
        /\ SettledUnlessDisturbed
        /\ \A t \in Thread : Syncing(t) => SettlesAll(thread[t])

NoneRunning == \A s \in Source, d \in Way : state[s][d].status # "running"

LEMMA SettledIs ==
    SettledUnlessDisturbed <=>
        (restarts = 0 /\ ~overlapped /\ ~unsaved /\ (\A t \in Thread : ~Syncing(t)) => NoneRunning)
  BY DEF SettledUnlessDisturbed, NoneRunning, Way

\* One thread is at work in the next state, and it settles what it has to.
LEMMA OneSettles ==
    ASSUME NEW t \in Thread, \A u \in Thread : Syncing(u)' <=> u = t, SettlesAll(thread[t])'
    PROVE  SettleInv'
  BY DEF SettleInv, SettledUnlessDisturbed

LEMMA StartSettles ==
    ASSUME state' = state, NEW k \in ThreadRec, NEW k2 \in ThreadRec, NEW rev, Starts(k, k2, rev),
           k.pc \in InLeg => SettlesAll(k), k.pc \notin InLeg => NoneRunning
    PROVE  SettlesAll(k2)'
<1>1. k2.pc = "load" /\ k2.src = k.src /\ Held(k2)' = state
  BY DEF Starts, Held
<1>2. k2.next # "done" => Leaves(k2) = {Head(k2.legs)}
  BY <1>1 DEF Leaves, InUpdate
<1>3. \A i \in DOMAIN k2.upd : k2.upd[i].status = "running" => k2.upd[i].dir \in Leaves(k2)
  BY <1>2 DEF Starts
<1>4. ASSUME NEW s \in Source, NEW d \in Way, state[s][d].status = "running"
      PROVE  s = k.src /\ Updates(k2, d)
  <2>1. SettlesAll(k) /\ k.pc \in InLeg
    BY <1>4 DEF NoneRunning
  <2>2. k.pc \notin InUpdate /\ Held(k) = state
    BY <2>1 DEF Held, InLeg, InUpdate
  <2>3. k.upd = <<>> /\ s = k.src /\ (d \in Leaves(k) \/ Updates(k, d))
    BY <1>4, <2>1, <2>2 DEF SettlesAll
  <2>4. ~Updates(k, d)
    BY <2>3 DEF Updates
  <2>5. k.pc # "check" /\ d = Head(k.legs)
    BY <2>1, <2>2, <2>3, <2>4 DEF Leaves
  <2> QED
    BY <2>1, <2>3, <2>5 DEF Starts, Updates
<1>5. Leaves(k2)' = Leaves(k2) /\ \A d : Updates(k2, d)' <=> Updates(k2, d)
  BY DEF Leaves, Updates
<1> QED
  BY <1>1, <1>3, <1>4, <1>5 DEF SettlesAll, InUpdate

LEMMA LoadSettles ==
    ASSUME state' = state, state \in State, NEW k \in ThreadRec, NEW k2 \in ThreadRec, Loads(k, k2),
           SettlesAll(k), k.src \in Source
    PROVE  SettlesAll(k2)'
<1> DEFINE u == Head(k.upd)
<1>1. /\ k.pc = "load" /\ k.upd # <<>> /\ k.upd \in Seq(Update) /\ u \in Update
      /\ k2.pc = "truncate" /\ k2.upd = Tail(k.upd) /\ k2.buf = Apply(state, k.src, u)
      /\ k2.src = k.src /\ k2.next = k.next /\ k2.legs = k.legs
  BY DEF Loads, ThreadRec
<1>2. u = k.upd[1] /\ 1 \in DOMAIN k.upd
  BY <1>1
<1>3. \A i \in DOMAIN k2.upd : i + 1 \in DOMAIN k.upd /\ k2.upd[i] = k.upd[i + 1]
  BY <1>1
<1>4. \A i \in DOMAIN k.upd : i = 1 \/ (\E j \in DOMAIN k2.upd : k2.upd[j] = k.upd[i])
  <2> SUFFICES ASSUME NEW i \in DOMAIN k.upd, i # 1
               PROVE  i - 1 \in DOMAIN k2.upd /\ k2.upd[i - 1] = k.upd[i]
    OBVIOUS
  <2> QED
    BY <1>1
<1>5. Held(k) = state /\ Held(k2)' = k2.buf /\ Leaves(k2) = Leaves(k)
  BY <1>1 DEF Held, Leaves, InUpdate, InLeg
<1>6. \A i \in DOMAIN k2.upd : k2.upd[i].status = "running" => k2.upd[i].dir \in Leaves(k2)
  BY <1>3, <1>5 DEF SettlesAll
<1> HIDE DEF u
<1>7. ASSUME NEW s \in Source, NEW d \in Way, k2.buf[s][d].status = "running"
      PROVE  s = k.src /\ (d \in Leaves(k2) \/ Updates(k2, d))
  <2>1. u.dir \in Way
    BY <1>1 DEF Update
  <2>2. CASE s = k.src /\ d = u.dir
    <3>1. k2.buf[s][d].status = u.status
      BY <1>1, <2>1, <2>2 DEF Apply, State
    <3>2. d \in Leaves(k)
      BY <1>2, <1>7, <2>2, <3>1 DEF SettlesAll
    <3> QED
      BY <1>5, <2>2, <3>2
  <2>3. CASE ~(s = k.src /\ d = u.dir)
    <3>1. k2.buf[s][d] = state[s][d]
      BY <1>1, <2>1, <2>3 DEF Apply, State
    <3>2. s = k.src /\ (d \in Leaves(k) \/ Updates(k, d))
      BY <1>5, <1>7, <3>1 DEF SettlesAll
    <3>3. Updates(k, d) => Updates(k2, d)
      BY <1>2, <1>4, <2>3, <3>2 DEF Updates
    <3> QED
      BY <1>5, <3>2, <3>3
  <2> QED
    BY <2>2, <2>3
<1>8. Leaves(k2)' = Leaves(k2) /\ \A d : Updates(k2, d)' <=> Updates(k2, d)
  BY DEF Leaves, Updates
<1> QED
  BY <1>1, <1>5, <1>6, <1>7, <1>8 DEF SettlesAll, InUpdate

\* The other steps change neither the updates nor what the file will hold.
LEMMA StaySettles ==
    ASSUME NEW k \in ThreadRec, NEW k2 \in ThreadRec, SettlesAll(k),
           k2.upd = k.upd, k2.src = k.src, Held(k2)' = Held(k), Leaves(k2) = Leaves(k),
           k2.pc \notin InUpdate => k.upd = <<>>
    PROVE  SettlesAll(k2)'
<1>1. Leaves(k2)' = Leaves(k2) /\ \A d : Updates(k2, d)' <=> Updates(k, d)
  BY DEF Leaves, Updates
<1> QED
  BY <1>1 DEF SettlesAll

LEMMA WorkSettles ==
    ASSUME SyncAssumption, TypeInv, NEW t \in Thread, WorkStep(t), SettlesAll(thread[t]), ~unsaved'
    PROVE  SettlesAll(thread[t])'
<1> DEFINE k == thread[t]
<1>0. k \in ThreadRec /\ state \in State /\ thread \in [Thread -> ThreadRec] /\ GoodThread(k)
  BY DEF TypeInv, TypeOK
<1>1. PICK k2 \in ThreadRec :
          /\ Become(t, k2) /\ GoodThread(k2) /\ Atwork(k)
          /\ \/ /\ \E rev \in Content \cup {None} : Recording(t, rev) /\ Starts(k, k2, rev)
                /\ k.pc \in InLeg /\ state' = state
             \/ GoesOn(k, k2) /\ state' = state
             \/ Loads(k, k2) /\ state' = state
             \/ k.pc = "truncate" /\ k2 = [k EXCEPT !.pc = "save"] /\ state' = NoState
             \/ Saves(k, k2) /\ state' = k.buf
             \/ Drops(k, k2) /\ state' \in {state, NoState} /\ unsaved'
  BY StepForms
<1>2. SettlesAll(k) /\ k.src \in Source /\ thread'[t] = k2
  BY <1>0, <1>1 DEF GoodThread, Become, Atwork
<1> HIDE DEF k
<1>3. CASE k.pc \in InLeg /\ state' = state /\ \E rev \in Content \cup {None} : Starts(k, k2, rev)
  <2>1. SettlesAll(k2)'
    BY <1>0, <1>2, <1>3, StartSettles
  <2> QED
    BY <1>2, <2>1 DEF SettlesAll, Held, Leaves, Updates
<1>4. CASE GoesOn(k, k2) /\ state' = state
  <2>1. /\ Leaves(k2) = Leaves(k) /\ k.pc \notin InUpdate /\ k2.pc \notin InUpdate
        /\ k2.upd = k.upd /\ k2.src = k.src /\ Held(k) = state /\ Held(k2)' = state
    BY <1>4 DEF GoesOn, Leaves, InLeg, InUpdate, Held
  <2>2. k.upd = <<>>
    BY <1>2, <2>1 DEF SettlesAll
  <2>3. SettlesAll(k2)'
    BY <1>0, <1>2, <2>1, <2>2, StaySettles
  <2> QED
    BY <1>2, <2>3 DEF SettlesAll, Held, Leaves, Updates
<1>5. CASE Loads(k, k2) /\ state' = state
  <2>1. SettlesAll(k2)'
    BY <1>0, <1>2, <1>5, LoadSettles
  <2> QED
    BY <1>2, <2>1 DEF SettlesAll, Held, Leaves, Updates
<1>6. CASE k.pc = "truncate" /\ k2 = [k EXCEPT !.pc = "save"]
  <2>1. k2.pc = "save" /\ k2.upd = k.upd /\ k2.src = k.src /\ k2.buf = k.buf /\ k2.next = k.next /\ k2.legs = k.legs
    BY <1>0, <1>6 DEF ThreadRec
  <2>2. Held(k2)' = Held(k) /\ Leaves(k2) = Leaves(k) /\ k2.pc \in InUpdate
    BY <1>6, <2>1 DEF Held, Leaves, InLeg, InUpdate
  <2>3. SettlesAll(k2)'
    BY <1>0, <1>2, <2>1, <2>2, StaySettles
  <2> QED
    BY <1>2, <2>3 DEF SettlesAll, Held, Leaves, Updates
<1>7. CASE Saves(k, k2) /\ state' = k.buf
  <2>1. k2.upd = k.upd /\ k2.src = k.src /\ k2.legs = k.legs /\ k.pc = "save" /\ Held(k) = k.buf
    BY <1>7 DEF Saves, Held
  <2>2. k2.pc \in AfterUpdate \cup {"load"}
    BY <1>0, <1>7 DEF Saves, GoodThread, InUpdate
  <2>3. Held(k2)' = Held(k)
    BY <1>7, <2>1, <2>2 DEF Held, AfterUpdate
  <2>4. Leaves(k2) = Leaves(k)
    <3>1. CASE k2.pc = "load" /\ k2.next = k.next
      BY <2>1, <3>1 DEF Leaves, InUpdate, InLeg
    <3>2. CASE k2.pc = k.next /\ k2.pc \in AfterUpdate
      BY <2>1, <3>2 DEF Leaves, InUpdate, InLeg, AfterUpdate
    <3> QED
      BY <1>0, <1>7, <3>1, <3>2 DEF Saves, GoodThread, InUpdate
  <2>5. k2.pc \notin InUpdate => k.upd = <<>>
    BY <1>7 DEF Saves, InUpdate
  <2>6. SettlesAll(k2)'
    BY <1>0, <1>2, <2>1, <2>3, <2>4, <2>5, StaySettles
  <2> QED
    BY <1>2, <2>6 DEF SettlesAll, Held, Leaves, Updates
<1> QED
  BY <1>1, <1>3, <1>4, <1>5, <1>6, <1>7

LEMMA SettleStep ==
    ASSUME SyncAssumption, TypeInv, AtMostOne, SettleInv, [Next]_vars
    PROVE  SettleInv'
<1>0. thread \in [Thread -> ThreadRec] /\ restarts \in Nat
  BY DEF TypeInv, TypeOK
<1>1. CASE Spawns
  <2>1. PICK t \in Thread, s \in Source, isJob \in BOOLEAN, d \in {"push", "pull", "both"} :
            Spawn(t, s, isJob, d)
    BY <1>1 DEF Spawns
  <2>2. /\ overlapped' = (overlapped \/ \E u \in Thread : Syncing(u))
        /\ UNCHANGED <<state, restarts, unsaved>>
    BY <2>1, SpawnForm
  <2>3. PICK k2 \in ThreadRec :
                 /\ Become(t, k2) /\ Atwork(k2)
                 /\ \/ k2.pc = "check" /\ k2.upd = <<>> /\ k2.next = "idle"
                    \/ \E k \in ThreadRec : k.pc = "idle" /\ k.src = s /\ k.orig = Home /\ Starts(k, k2, None)
    BY <2>1, SpawnForm
  <2> SUFFICES ASSUME restarts = 0, ~overlapped, ~unsaved, \A u \in Thread : ~Syncing(u)
               PROVE  SettleInv'
    BY <2>2 DEF SettleInv, SettledUnlessDisturbed
  <2>4. NoneRunning
    BY SettledIs DEF SettleInv
  <2>5. \A u \in Thread : Syncing(u)' <=> u = t
    BY <1>0, <2>3, SyncingIs DEF Become
  <2>6. SettlesAll(k2)'
    <3>1. CASE k2.pc = "check" /\ k2.upd = <<>>
      BY <2>2, <2>4, <3>1 DEF SettlesAll, InUpdate, Held, NoneRunning
    <3>2. ASSUME NEW k \in ThreadRec, k.pc = "idle", Starts(k, k2, None)
          PROVE  SettlesAll(k2)'
      <4>1. k.pc \notin InLeg
        BY <3>2 DEF InLeg
      <4> QED
        BY <2>2, <2>4, <3>2, <4>1, StartSettles
    <3> QED
      BY <2>3, <3>1, <3>2
  <2>7. SettlesAll(thread[t])'
    BY <1>0, <2>3, <2>6 DEF Become, SettlesAll, Held, Leaves, Updates
  <2> QED
    BY <2>5, <2>7, OneSettles
<1>2. ASSUME NEW t \in Thread, WorkStep(t)
      PROVE  SettleInv'
  <2>1. PICK k2 \in ThreadRec : Become(t, k2) /\ Atwork(thread[t]) /\ SameSync(thread[t], k2)
    BY <1>2, WorkStepThread
  <2>2. UNCHANGED <<restarts, overlapped>> /\ (unsaved => unsaved')
    <3>1. UNCHANGED <<restarts, overlapped>> /\ unsaved' \in {unsaved, TRUE}
      BY <1>2, WorkFrame
    <3>2. unsaved' = unsaved \/ unsaved' = TRUE
      BY <3>1
    <3>3. unsaved => unsaved'
      BY <3>2, Zenon
    <3> QED
      BY <3>1, <3>3
  <2> SUFFICES ASSUME restarts = 0, ~overlapped, ~unsaved, ~unsaved'
               PROVE  SettleInv'
    BY <2>2 DEF SettleInv
  <2>3. \A u \in Thread : Syncing(u)' <=> u = t
    BY <1>0, <2>1, SyncingIs DEF AtMostOne, Become, SameSync
  <2>4. SettlesAll(thread[t])'
    BY <1>2, <2>1, WorkSettles, SyncingIs DEF SettleInv
  <2> QED
    BY <2>3, <2>4, OneSettles
<1>3. ASSUME NEW t \in Thread, _sync_worker(t)
      PROVE  SettleInv'
  <2>1. PICK k2 \in ThreadRec : Become(t, k2) /\ ~Atwork(k2)
    BY <1>3, EndOfSync
  <2>2. thread[t].pc = "done" /\ UNCHANGED <<state, restarts, overlapped, unsaved>>
    BY <1>3 DEF _sync_worker
  <2> SUFFICES ASSUME restarts = 0, ~overlapped, ~unsaved
               PROVE  SettleInv'
    BY <2>2 DEF SettleInv
  <2>3. Syncing(t) /\ SettlesAll(thread[t])
    BY <2>2 DEF Syncing, SettleInv
  <2>4. \A u \in Thread : ~Syncing(u)'
    BY <1>0, <2>1, <2>3, SyncingIs DEF AtMostOne, Become
  <2>5. NoneRunning
    <3>1. thread[t].upd = <<>> /\ Held(thread[t]) = state /\ Leaves(thread[t]) = {}
      BY <2>2, <2>3 DEF SettlesAll, Held, Leaves, InUpdate, InLeg
    <3> QED
      BY <2>3, <3>1 DEF NoneRunning, SettlesAll, Updates
  <2>6. NoneRunning'
    BY <2>2, <2>5 DEF NoneRunning
  <2> QED
    BY <2>4, <2>6 DEF SettleInv, SettledUnlessDisturbed, NoneRunning, Way
\* The other steps change neither the file nor a thread that is at work.
<1>4. ASSUME UNCHANGED <<state, restarts, overlapped, unsaved>>,
             \A u \in Thread : Syncing(u)' <=> Syncing(u),
             \A u \in Thread : Syncing(u) => thread'[u] = thread[u]
      PROVE  SettleInv'
  <2>1. \A u \in Thread : SettlesAll(thread[u]) /\ Syncing(u) => SettlesAll(thread[u])'
    BY <1>4 DEF SettlesAll, Held, Leaves, Updates
  <2> QED
    BY <1>4, <2>1 DEF SettleInv, SettledUnlessDisturbed
<1>5. ASSUME NEW t \in Thread, cleanup_job(t)
      PROVE  SettleInv'
  <2>1. PICK k2 \in ThreadRec : Become(t, k2) /\ ~Atwork(k2)
    BY <1>5, EndOfSync
  <2>2. thread[t].pc = "cleanup" /\ UNCHANGED <<state, restarts, overlapped, unsaved>>
    BY <1>5 DEF cleanup_job
  <2>3. /\ \A u \in Thread : Syncing(u)' <=> Syncing(u)
        /\ \A u \in Thread : Syncing(u) => thread'[u] = thread[u]
    BY <1>0, <2>1, <2>2, SyncingIs DEF Become, Atwork
  <2> QED
    BY <1>4, <2>2, <2>3
<1>6. ASSUME NEW s \in Source, EditStorage(s) \/ EditExternal(s) \/ Refresh(s)
      PROVE  SettleInv'
  <2>1. UNCHANGED <<thread, state, restarts, overlapped, unsaved>>
    BY <1>6 DEF EditStorage, EditExternal, Refresh
  <2> QED
    BY <1>4, <2>1, SyncingIs
<1>7. CASE Restart
  <2>1. restarts' # 0
    BY <1>0, <1>7 DEF Restart
  <2> QED
    BY <2>1 DEF SettleInv
<1>8. CASE UNCHANGED vars
  <2>1. UNCHANGED <<thread, state, restarts, overlapped, unsaved>>
    BY <1>8 DEF vars
  <2> QED
    BY <1>4, <2>1, SyncingIs
<1> QED
  BY <1>1, <1>2, <1>3, <1>5, <1>6, <1>7, <1>8, NextForms DEF Ends

LEMMA AtMostOneInit == ASSUME SyncAssumption, Init PROVE AtMostOne
<1>1. \A t \in Thread : ~Syncing(t)
  BY NoThreadType, SyncingIs DEF Init
<1> QED
  BY <1>1 DEF AtMostOne

\* No status of a source is left at running when no sync is at work, unless there
\* was a restart, two syncs have overlapped or the file could not be written: whatever
\* other steps of a direction have failed, its last update replaces the status.
THEOREM SettledHolds == Spec => []SettledUnlessDisturbed
<1>1. Init => SettleInv
  <2> SUFFICES ASSUME Init PROVE SettleInv
    OBVIOUS
  <2>1. \A t \in Thread : ~Syncing(t)
    BY NoThreadType, SyncingIs DEF Init
  <2>2. NoneRunning
    BY DEF Init, NoneRunning, NoState, NoEntry
  <2> QED
    BY <2>1, <2>2, SettledIs DEF SettleInv
<1>2. Init => AtMostOne /\ TypeInv
  BY SyncAssumption, InitType, AtMostOneInit
<1>3. TypeInv /\ AtMostOne /\ [Next]_vars => TypeInv' /\ AtMostOne'
  BY SyncAssumption, TypeStep, AtMostOneStep
<1>4. TypeInv /\ AtMostOne /\ SettleInv /\ [Next]_vars => SettleInv'
  BY SyncAssumption, SettleStep
<1>5. TypeInv /\ SettleInv => SettledUnlessDisturbed
  BY DEF SettleInv, SettledUnlessDisturbed
<1> QED
  BY <1>1, <1>2, <1>3, <1>4, <1>5, PTL DEF Spec

-----------------------------------------------------------------------------
(* What a push delivers.                                                   *)

\* The copy a push has taken is in the work tree, and from the commit on it is
\* the head of the clone the server is in.
CopyIsThere(k) ==
    /\ k.pc = "chdir" /\ Push(k) => clone[k.src].work = k.copied
    /\ k.pc = "commit" => Push(k) /\ cwd = k.src /\ clone[k.src].work = k.copied
    /\ k.pc = "push" => Push(k) /\ cwd = k.src /\ clone[k.src].head = k.copied

PushInv == ~overlapped => \A t \in Thread : t \notin refreshed => CopyIsThere(thread[t])

Holding == {"chdir", "commit", "push"}

\* The steps that turn to or stay at one of them.
LEMMA HoldingSteps ==
    ASSUME SyncAssumption, TypeInv, NEW t \in Thread, WorkStep(t), thread'[t].pc \in Holding
    PROVE  Fill(t) \/ Chdir(t) \/ Commit(t)
<1> DEFINE k == thread[t]
<1>0. k \in ThreadRec /\ thread \in [Thread -> ThreadRec] /\ GoodThread(k)
  BY DEF TypeInv, TypeOK
<1>1. CASE CheckConflict(t) \/ _load_sync_state(t) \/ Truncate(t) \/ _save_sync_state(t) \/ SaveFails(t)
  <2>1. PICK k2 \in ThreadRec :
          /\ Become(t, k2)
          /\ \/ \E rev \in Content \cup {None} : Starts(k, k2, rev)
             \/ GoesOn(k, k2)
             \/ Loads(k, k2)
             \/ k.pc = "truncate" /\ k2 = [k EXCEPT !.pc = "save"]
             \/ Saves(k, k2)
             \/ Drops(k, k2)
    BY StepForms
  <2>2. k.pc \notin InLeg \ {"check"}
    BY <1>1 DEF CheckConflict, _load_sync_state, Truncate, _save_sync_state, SaveFails, InLeg
  <2>8. k2.pc \in Holding
    BY <1>0, <2>1 DEF Become
  <2>3. CASE \E rev \in Content \cup {None} : Starts(k, k2, rev)
    BY <2>3, <2>8 DEF Starts, Holding
  <2>4. CASE Loads(k, k2)
    <3>1. k2.pc = "truncate"
      BY <1>0, <2>4 DEF Loads, ThreadRec
    <3> QED
      BY <2>8, <3>1 DEF Holding
  <2>5. CASE k2 = [k EXCEPT !.pc = "save"]
    <3>1. k2.pc = "save"
      BY <1>0, <2>5 DEF ThreadRec
    <3> QED
      BY <2>8, <3>1 DEF Holding
  <2>6. CASE Saves(k, k2)
    BY <1>0, <2>6, <2>8 DEF Saves, GoodThread, InUpdate, AfterUpdate, Holding
  <2>7. CASE Drops(k, k2)
    BY <2>7, <2>8 DEF Drops, Holding
  <2> QED
    BY <2>1, <2>2, <2>3, <2>4, <2>5, <2>6, <2>7 DEF GoesOn
<1>4. CASE _compute_revision(t) \/ Fail(t) \/ Restore(t)
  <2>1. k.legs # <<>> /\ k.src \in Source
    BY <1>0, <1>4 DEF _compute_revision, Fail, Restore, GoodThread, InLeg
  <2>2. \E rev \in Content \cup {None} : thread'[t] = LegOk(k, rev) \/ thread'[t] = LegFails(k)
    <3>1. k.rev \in Content \cup {None} /\ ext[k.src].tree \in Content /\ store[k.src] \in Content
      BY <1>0, <2>1 DEF TypeInv, TypeOK, ThreadRec
    <3> QED
      BY <1>0, <1>4, <3>1 DEF _compute_revision, Fail, Restore, Become
  <2>3. \E rev \in Content \cup {None} : Starts(k, thread'[t], rev)
    BY <1>0, <2>1, <2>2, LegOkStarts, LegFailsStarts
  <2> QED
    BY <2>3 DEF Starts, Holding
<1>2. CASE Clear(t) \/ ResolveGit(t) \/ GitPush(t) \/ RevParse(t) \/ GitFails(t)
  <2>1. \/ \E pc \in {"fill", "clear", "head"} : thread'[t] = [k EXCEPT !.pc = pc]
        \/ thread'[t] = [k EXCEPT !.pc = "restore", !.ok = FALSE]
        \/ thread'[t] = [k EXCEPT !.pc = "restore", !.rev = clone[cwd].head]
    BY <1>0, <1>2 DEF Clear, ResolveGit, GitPush, RevParse, GitFails, Become
  <2>2. thread'[t].pc \in {"fill", "clear", "head", "restore"}
    BY <1>0, <2>1 DEF ThreadRec
  <2> QED
    BY <2>2 DEF Holding
<1> QED
  BY <1>1, <1>2, <1>4 DEF WorkStep

LEMMA CopyWork ==
    ASSUME SyncAssumption, TypeInv, NEW t \in Thread, WorkStep(t),
           t \notin refreshed => CopyIsThere(thread[t]), t \notin refreshed'
    PROVE  CopyIsThere(thread[t])'
<1> DEFINE k == thread[t]
<1>0. /\ k \in ThreadRec /\ thread \in [Thread -> ThreadRec] /\ GoodThread(k)
      /\ store \in [Source -> Content]
      /\ clone \in [Source -> [origin : Content, head : Content, work : Content, behind : BOOLEAN]]
  BY DEF TypeInv, TypeOK
<1>1. CASE thread'[t].pc \notin Holding
  BY <1>1 DEF Holding, CopyIsThere
<1>2. CASE Fill(t)
  <2> DEFINE copied == IF Push(k) THEN From(k) ELSE None
             pc == IF Mode(k.src) = "git" THEN "chdir" ELSE "hash"
  <2>1. thread'[t] = [k EXCEPT !.copied = copied, !.pc = pc] /\ WriteTarget(k, From(k))
    BY <1>0, <1>2 DEF Fill, Become
  <2>2. k.src \in Source
    BY <1>0, <1>2 DEF Fill, GoodThread
  <2> HIDE DEF copied, pc
  <2>3. LET k2 == thread'[t] IN k2.copied = copied /\ k2.pc = pc /\ k2.src = k.src /\ k2.legs = k.legs
    BY <1>0, <2>1 DEF ThreadRec
  <2>4. ASSUME Mode(k.src) = "git", Push(k)
        PROVE  clone'[k.src].work = copied
    <3>1. clone' = [clone EXCEPT ![k.src].work = From(k)] /\ copied = From(k)
      BY <2>1, <2>4 DEF WriteTarget, copied
    <3> QED
      BY <1>0, <2>2, <3>1
  <2> QED
    BY <2>3, <2>4 DEF CopyIsThere, Push, pc
<1>3. CASE Chdir(t)
  <2> DEFINE pc == IF Push(k) THEN "commit" ELSE "head"
  <2>1. /\ k.pc = "chdir" /\ cwd' = k.src /\ thread'[t] = [k EXCEPT !.orig = cwd, !.pc = pc]
        /\ Push(k) => clone' = clone /\ refreshed' = refreshed
    BY <1>0, <1>3 DEF Chdir, Become
  <2> HIDE DEF pc
  <2>2. LET k2 == thread'[t] IN k2.copied = k.copied /\ k2.pc = pc /\ k2.src = k.src /\ k2.legs = k.legs
    BY <1>0, <2>1 DEF ThreadRec
  <2> QED
    BY <2>1, <2>2 DEF CopyIsThere, Push, pc
<1>4. CASE Commit(t)
  <2>1. /\ k.pc = "commit" /\ clone' = [clone EXCEPT ![cwd].head = clone[cwd].work] /\ cwd' = cwd
        /\ thread'[t] = [k EXCEPT !.pc = "push"] /\ refreshed' = refreshed
    BY <1>0, <1>4 DEF Commit, Become
  <2>2. LET k2 == thread'[t] IN k2.copied = k.copied /\ k2.pc = "push" /\ k2.src = k.src /\ k2.legs = k.legs
    BY <1>0, <2>1 DEF ThreadRec
  <2>3. k.src \in Source /\ Push(k) /\ cwd = k.src /\ clone[k.src].work = k.copied
    BY <1>0, <2>1 DEF CopyIsThere, GoodThread
  <2>4. clone'[k.src].head = k.copied
    BY <1>0, <2>1, <2>3
  <2> QED
    BY <2>1, <2>2, <2>3, <2>4 DEF CopyIsThere, Push
<1> QED
  BY <1>1, <1>2, <1>3, <1>4, HoldingSteps

LEMMA PushStep ==
    ASSUME SyncAssumption, TypeInv, AtMostOne, PushInv, [Next]_vars
    PROVE  PushInv'
<1>0. thread \in [Thread -> ThreadRec]
  BY DEF TypeInv, TypeOK
<1>n. \A t \in Thread : ~Atwork(thread'[t]) => CopyIsThere(thread[t])'
  BY DEF CopyIsThere, Atwork
<1>1. CASE Spawns
  <2>1. PICK t \in Thread, s \in Source, isJob \in BOOLEAN, d \in {"push", "pull", "both"} :
            Spawn(t, s, isJob, d)
    BY <1>1 DEF Spawns
  <2>2. overlapped' = (overlapped \/ \E u \in Thread : Syncing(u)) /\ refreshed' = refreshed
    BY <2>1, SpawnForm
  <2>3. PICK k2 \in ThreadRec :
                 /\ Become(t, k2) /\ Atwork(k2)
                 /\ \/ k2.pc = "check" /\ k2.upd = <<>> /\ k2.next = "idle"
                    \/ \E k \in ThreadRec : k.pc = "idle" /\ k.src = s /\ k.orig = Home /\ Starts(k, k2, None)
    BY <2>1, SpawnForm
  <2>4. thread'[t].pc \in {"check", "load"}
    BY <1>0, <2>3 DEF Become, Starts
  <2>5. CopyIsThere(thread[t])'
    BY <2>4 DEF CopyIsThere
  <2>6. \A u \in Thread : u # t => thread'[u] = thread[u]
    BY <1>0, <2>3 DEF Become
  <2>7. ~overlapped' => \A u \in Thread : u # t => CopyIsThere(thread[u])'
    BY <1>n, <2>2, <2>6, SyncingIs
  <2> QED
    BY <2>5, <2>7 DEF PushInv
<1>2. ASSUME NEW t \in Thread, WorkStep(t)
      PROVE  PushInv'
  <2>1. PICK k2 \in ThreadRec : Become(t, k2) /\ Atwork(thread[t])
    BY <1>2, WorkStepThread
  <2>2. overlapped' = overlapped
    BY <1>2, WorkFrame
  <2> SUFFICES ASSUME ~overlapped
               PROVE  PushInv'
    BY <2>2 DEF PushInv
  <2>3. \A u \in Thread : u # t => ~Atwork(thread'[u])
    BY <1>0, <2>1, SyncingIs DEF AtMostOne, Become
  <2>4. t \notin refreshed' => CopyIsThere(thread[t])'
    BY <1>2, CopyWork DEF PushInv
  <2> QED
    BY <1>n, <2>3, <2>4 DEF PushInv
<1>3. ASSUME NEW t \in Thread, _sync_worker(t)
      PROVE  PushInv'
  <2>1. PICK k2 \in ThreadRec : Become(t, k2) /\ ~Atwork(k2)
    BY <1>3, EndOfSync
  <2>2. Atwork(thread[t]) /\ overlapped' = overlapped
    BY <1>3 DEF _sync_worker, Atwork
  <2>3. ~overlapped => \A u \in Thread : ~Atwork(thread'[u])
    BY <1>0, <2>1, <2>2, SyncingIs DEF AtMostOne, Become
  <2> QED
    BY <1>n, <2>2, <2>3 DEF PushInv
\* The other steps change neither the clones nor a thread that is at work.
<1>4. ASSUME UNCHANGED <<cwd, overlapped, refreshed>>,
             \A u \in Thread : ~Atwork(thread'[u]) \/ thread'[u] = thread[u],
             \A s \in Source : clone'[s].work = clone[s].work /\ clone'[s].head = clone[s].head
      PROVE  PushInv'
  <2>1. ASSUME NEW u \in Thread, thread'[u] = thread[u], CopyIsThere(thread[u])
        PROVE  CopyIsThere(thread[u])'
    <3>1. thread[u].pc # "idle" => thread[u].src \in Source
      BY DEF TypeInv, GoodThread
    <3> QED
      BY <1>4, <2>1, <3>1 DEF CopyIsThere, Push
  <2> QED
    BY <1>n, <1>4, <2>1 DEF PushInv
<1>5. ASSUME NEW t \in Thread, cleanup_job(t)
      PROVE  PushInv'
  <2>1. PICK k2 \in ThreadRec : Become(t, k2) /\ ~Atwork(k2)
    BY <1>5, EndOfSync
  <2>2. UNCHANGED <<clone, cwd, overlapped, refreshed>>
    BY <1>5 DEF cleanup_job
  <2>3. \A u \in Thread : ~Atwork(thread'[u]) \/ thread'[u] = thread[u]
    BY <1>0, <2>1 DEF Become
  <2> QED
    BY <1>4, <2>2, <2>3
<1>6. ASSUME NEW s \in Source, EditStorage(s) \/ EditExternal(s)
      PROVE  PushInv'
  <2>1. UNCHANGED <<thread, cwd, overlapped, refreshed>>
    BY <1>6 DEF EditStorage, EditExternal
  <2>2. clone' = clone \/ \E b \in BOOLEAN : clone' = [clone EXCEPT ![s].behind = b]
    BY <1>6 DEF EditStorage, EditExternal
  <2>3. \A r \in Source : clone'[r].work = clone[r].work /\ clone'[r].head = clone[r].head
    BY <2>2 DEF TypeInv, TypeOK
  <2> QED
    BY <1>4, <2>1, <2>3
\* A refresh resets the clone of s, and excuses the threads that hold a copy there.
<1>9. ASSUME NEW s \in Source, Refresh(s)
      PROVE  PushInv'
  <2>1. UNCHANGED <<thread, cwd, overlapped>> /\ resolve_path(s, TRUE)
    BY <1>9 DEF Refresh
  <2>2. \A r \in Source : r # s => clone'[r] = clone[r]
    BY <2>1 DEF TypeInv, TypeOK, resolve_path, _clone_or_fetch
  <2>3. ASSUME NEW u \in Thread, u \notin refreshed', CopyIsThere(thread[u])
        PROVE  CopyIsThere(thread[u])'
    <3>1. thread[u].pc # "idle" => thread[u].src \in Source
      BY DEF TypeInv, GoodThread
    <3>2. ~(thread[u].src = s /\ thread[u].pc \in Holding /\ Push(thread[u]))
      BY <1>9, <2>3 DEF Refresh, Holding
    <3> QED
      BY <2>1, <2>2, <2>3, <3>1, <3>2 DEF CopyIsThere, Push, Holding
  <2>4. \A u \in Thread : u \notin refreshed' => u \notin refreshed
    BY <1>9 DEF Refresh
  <2> QED
    BY <2>1, <2>3, <2>4 DEF PushInv
<1>7. CASE Restart
  <2>1. \A t \in Thread : thread'[t] = NoThread
    BY <1>7 DEF Restart
  <2> QED
    BY <1>n, <2>1, NoThreadType DEF PushInv
<1>8. CASE UNCHANGED vars
  <2>1. UNCHANGED <<thread, clone, cwd, overlapped, refreshed>>
    BY <1>8 DEF vars
  <2> QED
    BY <1>4, <2>1
<1> QED
  BY <1>1, <1>2, <1>3, <1>5, <1>6, <1>7, <1>8, <1>9, NextForms DEF Ends

\* If no two syncs have overlapped and nobody has refreshed the clone since the copy
\* began, a push that succeeds has put the copy it took of Project Storage on the
\* remote branch: the work tree, the commit and the branch belong to the source from
\* the copy on, whatever failed, restarted or refreshed before.
THEOREM PushDeliversHolds == Spec => PushDelivers
<1> DEFINE Step == \A t \in Thread :
                      LET k == thread[t]
                      IN  k.pc = "push" /\ thread'[t].pc = "head" /\ ~overlapped /\ t \notin refreshed
                          => ext'[k.src].tree = k.copied
<1>1. TypeInv /\ PushInv /\ [Next]_vars => [Step]_vars
  <2> SUFFICES ASSUME TypeInv, PushInv, [Next]_vars, NEW t \in Thread,
                      thread[t].pc = "push", thread'[t].pc = "head", ~overlapped, t \notin refreshed
               PROVE  ext'[thread[t].src].tree = thread[t].copied
    OBVIOUS
  <2>0. thread \in [Thread -> ThreadRec] /\ thread[t] # NoThread /\ Atwork(thread[t]) /\ GoodThread(thread[t])
        /\ CopyIsThere(thread[t])
    BY DEF TypeInv, TypeOK, NoThread, Atwork, PushInv
  <2>1. thread'[t] # thread[t] /\ thread'[t] # NoThread
    BY DEF NoThread
  <2>2. ~Spawns
    <3>1. ASSUME NEW u \in Thread, NEW s \in Source, NEW isJob \in BOOLEAN, NEW d \in {"push", "pull", "both"},
                 Spawn(u, s, isJob, d)
          PROVE  FALSE
      <4>1. thread[u] = NoThread /\ \E k2 \in ThreadRec : Become(u, k2)
        BY <3>1, SyncAssumption, SpawnForm
      <4> QED
        BY <2>0, <2>1, <4>1 DEF Become
    <3> QED
      BY <3>1 DEF Spawns
  <2>3. ASSUME NEW u \in Thread, Ends(u)
        PROVE  FALSE
    <3>1. thread[u].pc \in {"done", "cleanup"} /\ \E k2 \in ThreadRec : Become(u, k2)
      BY <2>3, SyncAssumption, EndOfSync DEF Ends, _sync_worker, cleanup_job
    <3> QED
      BY <2>0, <2>1, <3>1 DEF Become
  <2>4. PICK u \in Thread : WorkStep(u)
    BY <2>1, <2>2, <2>3, SyncAssumption, NextForms DEF EditStorage, EditExternal, Refresh, Restart, vars
  <2>5. u = t
    BY <2>0, <2>1, <2>4, SyncAssumption, WorkStepThread DEF Become
  <2>6. GitPush(t)
    <3>1. GitPush(t) \/ GitFails(t)
      BY <2>4, <2>5 DEF WorkStep, CheckConflict, _load_sync_state, Truncate, _save_sync_state, SaveFails, Clear, Fill,
           _compute_revision, Fail, ResolveGit, Chdir, Commit, RevParse, Restore
    <3>2. ~GitFails(t)
      BY <2>0 DEF GitFails, Become, ThreadRec
    <3> QED
      BY <3>1, <3>2
  <2>7. /\ thread[t].src \in Source /\ cwd = thread[t].src /\ clone[cwd].head = thread[t].copied
        /\ ext' = [ext EXCEPT ![cwd].tree = clone[cwd].head]
    BY <2>0, <2>6 DEF GoodThread, CopyIsThere, GitPush
  <2> QED
    BY <2>7 DEF TypeInv, TypeOK
<1>2. Init => TypeInv /\ AtMostOne /\ PushInv
  <2> SUFFICES ASSUME Init PROVE PushInv
    BY SyncAssumption, InitType, AtMostOneInit
  <2>1. \A t \in Thread : thread[t].pc = "idle"
    BY DEF Init, NoThread
  <2> QED
    BY <2>1 DEF PushInv, CopyIsThere
<1>3. TypeInv /\ AtMostOne /\ PushInv /\ [Next]_vars => TypeInv' /\ AtMostOne' /\ PushInv'
  BY SyncAssumption, TypeStep, AtMostOneStep, PushStep
<1> QED
  BY <1>1, <1>2, <1>3, PTL DEF Spec, PushDelivers

-----------------------------------------------------------------------------
(* Where git runs.                                                         *)

Local(s) == Mode(s) = "local"

\* Git runs for a source of mode git only.
GitThread(k) ==
    /\ k.orig # Home => ~Local(k.orig)
    /\ k.pc \in GitPC => ~Local(k.src)
    /\ k.next = "resolve" => k.src \in Source /\ ~Local(k.src)

GitInv == (cwd # Home => ~Local(cwd)) /\ \A t \in Thread : GitThread(thread[t])

LEMMA ModeStays ==
    ASSUME SyncAssumption, TypeInv, [Next]_vars
    PROVE  \A s \in Source : Mode(s)' = Mode(s)
<1>0. ext \in [Source -> [mode : Modes, tree : Content]]
  BY DEF TypeInv, TypeOK
<1>1. ASSUME NEW s, NEW c, ext' = [ext EXCEPT ![s].tree = c]
      PROVE  \A r \in Source : ext'[r].mode = ext[r].mode
  BY <1>0, <1>1
<1>2. ASSUME NEW t \in Thread, WorkStep(t)
      PROVE  ext' = ext \/ \E s, c : ext' = [ext EXCEPT ![s].tree = c]
  <2>1. CASE Clear(t) \/ Fill(t)
    BY <2>1 DEF Clear, Fill, WriteTarget
  <2>2. CASE GitPush(t)
    BY <2>2 DEF GitPush
  <2>3. CASE CheckConflict(t) \/ _load_sync_state(t) \/ Truncate(t) \/ _save_sync_state(t) \/ SaveFails(t)
             \/ _compute_revision(t) \/ Fail(t) \/ ResolveGit(t)
    BY <2>3 DEF CheckConflict, _load_sync_state, Truncate, _save_sync_state, SaveFails, _compute_revision, Fail,
                ResolveGit
  <2>4. CASE Chdir(t) \/ Commit(t) \/ RevParse(t) \/ GitFails(t) \/ Restore(t)
    BY <2>4 DEF Chdir, Commit, RevParse, GitFails, Restore
  <2> QED
    BY <1>2, <2>1, <2>2, <2>3, <2>4 DEF WorkStep
<1>3. Spawns => ext' = ext
  BY DEF Spawns, Spawn
<1>4. ASSUME NEW t \in Thread, Ends(t)
      PROVE  ext' = ext
  BY <1>4 DEF Ends, _sync_worker, cleanup_job
<1>5. ASSUME NEW s \in Source, EditStorage(s) \/ EditExternal(s) \/ Refresh(s)
      PROVE  ext' = ext \/ \E c : ext' = [ext EXCEPT ![s].tree = c]
  BY <1>5 DEF EditStorage, EditExternal, Refresh
<1>6. Restart \/ UNCHANGED vars => ext' = ext
  BY DEF Restart, vars
<1> QED
  BY <1>1, <1>2, <1>3, <1>4, <1>5, <1>6, NextForms DEF Mode

LEMMA GitWork ==
    ASSUME SyncAssumption, TypeInv, GitInv, NEW t \in Thread, WorkStep(t)
    PROVE  GitThread(thread'[t])
<1> DEFINE k == thread[t]
<1>0. /\ k \in ThreadRec /\ thread \in [Thread -> ThreadRec] /\ GoodThread(k) /\ GitThread(k)
      /\ cwd # Home => ~Local(cwd)
  BY DEF TypeInv, TypeOK, GitInv
<1>1. PICK k2 \in ThreadRec :
          /\ Become(t, k2) /\ Atwork(k)
          /\ \/ k.pc \in InLeg /\ \E rev \in Content \cup {None} : Starts(k, k2, rev)
             \/ GoesOn(k, k2)
             \/ Loads(k, k2)
             \/ k.pc = "truncate" /\ k2 = [k EXCEPT !.pc = "save"]
             \/ Saves(k, k2)
             \/ Drops(k, k2)
  BY StepForms
<1>2. thread'[t] = k2 /\ k.src \in Source
  BY <1>0, <1>1 DEF Become, Atwork, GoodThread
<1> HIDE DEF k
<1> SUFFICES GitThread(k2)
  BY <1>2
<1>3. CASE \E rev \in Content \cup {None} : Starts(k, k2, rev)
  BY <1>0, <1>2, <1>3 DEF Starts, GitThread, GitPC, Local
<1>4. CASE Loads(k, k2)
  <2>1. k2.pc = "truncate" /\ k2.src = k.src /\ k2.orig = k.orig /\ k2.next = k.next
    BY <1>0, <1>4 DEF Loads, ThreadRec
  <2> QED
    BY <1>0, <2>1 DEF GitThread, GitPC
<1>5. CASE k2 = [k EXCEPT !.pc = "save"]
  <2>1. k2.pc = "save" /\ k2.src = k.src /\ k2.orig = k.orig /\ k2.next = k.next
    BY <1>0, <1>5 DEF ThreadRec
  <2> QED
    BY <1>0, <2>1 DEF GitThread, GitPC
<1>6. CASE Saves(k, k2)
  <2>1. k.pc = "save" /\ k.next \in AfterUpdate
    BY <1>0, <1>6 DEF Saves, GoodThread, InUpdate
  <2>2. k2.src = k.src /\ k2.orig = k.orig
        /\ ((k2.pc = k.next /\ k2.next = "idle") \/ (k2.pc = "load" /\ k2.next = k.next))
    BY <1>6 DEF Saves
  <2> QED
    BY <1>0, <2>1, <2>2 DEF GitThread, GitPC, AfterUpdate
<1>7. CASE GoesOn(k, k2)
  BY <1>0, <1>7 DEF GoesOn, GitThread, Local
<1>8. CASE Drops(k, k2)
  BY <1>0, <1>8 DEF Drops, GitThread, GitPC
<1> QED
  BY <1>1, <1>2, <1>3, <1>4, <1>5, <1>6, <1>7, <1>8

LEMMA EndsForm ==
    ASSUME SyncAssumption, TypeInv, NEW t \in Thread, Ends(t)
    PROVE  \E k2 \in ThreadRec :
              /\ Become(t, k2) /\ GoodThread(k2) /\ k2.pc \in {"idle", "cleanup"}
              /\ k2.orig = Home /\ k2.next = "idle" /\ k2.upd = <<>> /\ k2.buf = NoState
<1>1. PICK k2 \in ThreadRec : Become(t, k2) /\ GoodThread(k2)
  BY EndOfSync DEF Ends
<1>2. k2 = NoThread \/ k2 = [NoThread EXCEPT !.pc = "cleanup", !.src = thread[t].src]
  BY <1>1 DEF Ends, _sync_worker, cleanup_job, Become, TypeInv, TypeOK
<1>3. /\ NoThread.pc = "idle" /\ NoThread.orig = Home /\ NoThread.next = "idle"
      /\ NoThread.upd = <<>> /\ NoThread.buf = NoState
  BY DEF NoThread
<1> DEFINE c == [NoThread EXCEPT !.pc = "cleanup", !.src = thread[t].src]
<1>5. /\ c.pc = "cleanup" /\ c.orig = NoThread.orig /\ c.next = NoThread.next
      /\ c.upd = NoThread.upd /\ c.buf = NoThread.buf
  BY DEF NoThread
<1> HIDE DEF c
<1>6. k2 = NoThread \/ k2 = c
  BY <1>2 DEF c
<1>4. /\ k2.pc \in {"idle", "cleanup"} /\ k2.orig = Home /\ k2.next = "idle"
      /\ k2.upd = <<>> /\ k2.buf = NoState
  BY <1>3, <1>5, <1>6
<1> QED
  BY <1>1, <1>4

LEMMA GitStep == ASSUME SyncAssumption, TypeInv, GitInv, [Next]_vars PROVE GitInv'
<1>0. /\ thread \in [Thread -> ThreadRec] /\ cwd \in Source \cup {Home}
      /\ \A u \in Thread : /\ GitThread(thread[u]) /\ GoodThread(thread[u])
                           /\ thread[u] \in ThreadRec
      /\ cwd # Home => ~Local(cwd)
  BY DEF TypeInv, TypeOK, GitInv
<1>1. \A s \in Source : Local(s)' <=> Local(s)
  BY ModeStays DEF Local
\* What holds of a thread goes on holding.
<1>2. ASSUME NEW k \in ThreadRec, GitThread(k), GoodThread(k)
      PROVE  GitThread(k)'
  <2>1. k.orig \in Source \cup {Home} /\ (k.pc \in GitPC => k.src \in Source)
    BY <1>2 DEF ThreadRec, GoodThread, GitPC
  <2> QED
    BY <1>1, <1>2, <2>1 DEF GitThread
<1>3. ASSUME NEW t \in Thread, NEW k2 \in ThreadRec, Become(t, k2), GitThread(k2), GoodThread(k2)
      PROVE  \A u \in Thread : GitThread(thread[u])'
  <2>1. ASSUME NEW u \in Thread PROVE GitThread(thread'[u]) /\ GoodThread(thread'[u]) /\ thread'[u] \in ThreadRec
    BY <1>0, <1>3 DEF Become
  <2>2. ASSUME NEW u \in Thread PROVE GitThread(thread[u])'
    <3>1. PICK k \in ThreadRec : thread'[u] = k
      BY <2>1
    <3>2. GitThread(k)'
      BY <1>2, <2>1, <3>1
    <3> QED
      BY <3>1, <3>2 DEF GitThread
  <2> QED
    BY <2>2
<1>4. ASSUME cwd' = cwd
      PROVE  (cwd # Home => ~Local(cwd))'
  BY <1>0, <1>1, <1>4
<1>5. CASE Spawns
  <2>1. PICK t \in Thread, s \in Source, isJob \in BOOLEAN, d \in {"push", "pull", "both"} :
            Spawn(t, s, isJob, d)
    BY <1>5 DEF Spawns
  <2>2. PICK k2 \in ThreadRec :
                 /\ Become(t, k2) /\ k2.orig = Home /\ k2.src = s
                 /\ \/ k2.pc = "check" /\ k2.upd = <<>> /\ k2.next = "idle"
                    \/ \E k \in ThreadRec : k.pc = "idle" /\ k.src = s /\ k.orig = Home /\ Starts(k, k2, None)
    BY <2>1, SpawnForm
  <2>3. GitThread(k2)
    BY <2>2 DEF GitThread, GitPC, Starts, Local
  <2>4. GoodThread(k2)
    <3>1. PICK k3 \in ThreadRec : Become(t, k3) /\ GoodThread(k3)
      BY <2>1, SpawnThread
    <3> QED
      BY <1>0, <2>2, <3>1 DEF Become
  <2>5. cwd' = cwd
    BY <2>1, SpawnForm
  <2> QED
    BY <1>3, <1>4, <2>2, <2>3, <2>4, <2>5 DEF GitInv
<1>6. ASSUME NEW t \in Thread, WorkStep(t)
      PROVE  GitInv'
  <2>1. PICK k2 \in ThreadRec : Become(t, k2) /\ GoodThread(k2) /\ Atwork(thread[t])
    BY <1>6, WorkStepThread
  <2>2. GitThread(k2)
    BY <1>0, <1>6, <2>1, GitWork DEF Become
  <2>3. \/ cwd' = cwd
        \/ cwd' = thread[t].src /\ thread[t].pc \in GitPC
        \/ cwd' = thread[t].orig
    <3>1. CASE Chdir(t) \/ Restore(t)
      BY <3>1 DEF Chdir, Restore, GitPC
    <3>2. CASE CheckConflict(t) \/ _load_sync_state(t) \/ Truncate(t) \/ _save_sync_state(t) \/ SaveFails(t)
      BY <3>2 DEF CheckConflict, _load_sync_state, Truncate, _save_sync_state, SaveFails
    <3>3. CASE Clear(t) \/ Fill(t) \/ _compute_revision(t) \/ Fail(t) \/ ResolveGit(t)
      BY <3>3 DEF Clear, Fill, _compute_revision, Fail, ResolveGit
    <3>4. CASE Commit(t) \/ GitPush(t) \/ RevParse(t) \/ GitFails(t)
      BY <3>4 DEF Commit, GitPush, RevParse, GitFails
    <3> QED
      BY <1>6, <3>1, <3>2, <3>3, <3>4 DEF WorkStep
  <2>4. thread[t].src \in Source /\ thread[t].orig \in Source \cup {Home} /\ GitThread(thread[t])
    BY <1>0, <2>1 DEF GoodThread, Atwork, ThreadRec
  <2>5. (cwd # Home => ~Local(cwd))'
    BY <1>1, <1>4, <2>3, <2>4 DEF GitThread
  <2> QED
    BY <1>3, <2>1, <2>2, <2>5 DEF GitInv
<1>7. ASSUME NEW t \in Thread, Ends(t)
      PROVE  GitInv'
  <2>1. PICK k2 \in ThreadRec : /\ Become(t, k2) /\ GoodThread(k2) /\ k2.pc \in {"idle", "cleanup"}
                                 /\ k2.orig = Home /\ k2.next = "idle"
    BY <1>7, EndsForm
  <2>3. GitThread(k2)
    BY <2>1 DEF GitThread, GitPC
  <2>4. cwd' = cwd
    BY <1>7 DEF Ends, _sync_worker, cleanup_job
  <2> QED
    BY <1>3, <1>4, <2>1, <2>3, <2>4 DEF GitInv
<1>8. ASSUME UNCHANGED <<thread, cwd>>
      PROVE  GitInv'
  <2>1. ASSUME NEW u \in Thread PROVE GitThread(thread[u])'
    <3>1. PICK k \in ThreadRec : thread[u] = k
      BY <1>0
    <3>2. GitThread(k)'
      BY <1>0, <1>2, <3>1
    <3> QED
      BY <1>8, <3>1, <3>2 DEF GitThread
  <2> QED
    BY <1>4, <1>8, <2>1 DEF GitInv
<1>9. ASSUME NEW s \in Source, EditStorage(s) \/ EditExternal(s) \/ Refresh(s)
      PROVE  GitInv'
  BY <1>8, <1>9 DEF EditStorage, EditExternal, Refresh
<1>10. CASE Restart
  BY <1>10 DEF Restart, GitInv, GitThread, GitPC, NoThread
<1>11. CASE UNCHANGED vars
  BY <1>8, <1>11 DEF vars
<1> QED
  BY <1>5, <1>6, <1>7, <1>9, <1>10, <1>11, NextForms

-----------------------------------------------------------------------------
(* The revisions on record, and the edits since.                           *)

\* c is the revision of a direction in what thread k is about to write.
KnowsRev(k, s, d, c) ==
    \/ k.buf[s][d].rev = c
    \/ k.src = s /\ \E i \in DOMAIN k.upd : k.upd[i].dir = d /\ k.upd[i].rev = c

\* It is in the file, or may come back to it.
OnRecord(s, d, c) == state[s][d].rev = c \/ \E t \in Thread : KnowsRev(thread[t], s, d, c)

\* What a sync that ends a direction records: the revision of its target.
Current(s, d) == IF d = "push" THEN ext[s].tree ELSE store[s]

LEMMA HashOnly ==
    ASSUME NEW t \in Thread, NEW c \in Nat, SyncAssumption, TypeInv, GitInv,
           thread[t].pc \in InLeg, Local(thread[t].src), Recording(t, c)
    PROVE  c = Current(thread[t].src, Head(thread[t].legs))
<1>1. thread[t].pc # "restore"
  BY DEF GitInv, GitThread, GitPC
<1>2. c # None
  BY DEF SyncAssumption
<1> QED
  BY <1>1, <1>2 DEF Recording, Current, Push

LEMMA ThreadRecord ==
    ASSUME SyncAssumption, TypeInv, GitInv, NEW t \in Thread, WorkStep(t),
           NEW s \in Source, Local(s), NEW d \in Way, NEW c \in Nat,
           state'[s][d].rev = c \/ KnowsRev(thread'[t], s, d, c)
    PROVE  state[s][d].rev = c \/ KnowsRev(thread[t], s, d, c) \/ c = Current(s, d)
<1> DEFINE k == thread[t]
<1>0. k \in ThreadRec /\ thread \in [Thread -> ThreadRec] /\ state \in State /\ c # None /\ k.src \in Source \cup {None}
  BY DEF TypeInv, TypeOK, SyncAssumption, ThreadRec
<1>1. PICK k2 \in ThreadRec :
          /\ Become(t, k2)
          /\ \/ /\ \E rev \in Content \cup {None} : Recording(t, rev) /\ Starts(k, k2, rev)
                /\ k.pc \in InLeg /\ state' = state
             \/ GoesOn(k, k2) /\ state' = state
             \/ Loads(k, k2) /\ state' = state
             \/ k.pc = "truncate" /\ k2 = [k EXCEPT !.pc = "save"] /\ state' = NoState
             \/ Saves(k, k2) /\ state' = k.buf
             \/ Drops(k, k2) /\ state' \in {state, NoState} /\ unsaved'
  BY StepForms
<1>2. thread'[t] = k2
  BY <1>0, <1>1 DEF Become
<1>3. ~(NoState[s][d].rev = c)
  BY <1>0 DEF NoState, NoEntry
<1>4. ASSUME NEW rev \in Content \cup {None}, Recording(t, rev), Starts(k, k2, rev), k.pc \in InLeg, state' = state
      PROVE  state[s][d].rev = c \/ KnowsRev(k, s, d, c) \/ c = Current(s, d)
  <2> SUFFICES ASSUME k2.src = s, NEW i \in DOMAIN k2.upd, k2.upd[i].dir = d, k2.upd[i].rev = c
               PROVE  c = Current(s, d)
    BY <1>2, <1>4 DEF KnowsRev, Starts
  <2>1. rev = c /\ d = Head(k.legs) /\ k.src = s
    BY <1>0, <1>4 DEF Starts
  <2> QED
    BY <1>4, <2>1, HashOnly
<1> HIDE DEF k
<1>5. CASE GoesOn(k, k2) /\ state' = state
  BY <1>2, <1>5 DEF KnowsRev, GoesOn, k
<1>6. CASE Loads(k, k2) /\ state' = state
  <2> DEFINE u == Head(k.upd)
  <2>1. /\ k.upd \in Seq(Update) /\ k.upd # <<>> /\ u \in Update /\ u = k.upd[1] /\ 1 \in DOMAIN k.upd
        /\ k2.upd = Tail(k.upd) /\ k2.src = k.src /\ k2.buf = Apply(state, k.src, u)
    BY <1>0, <1>6 DEF Loads, ThreadRec
  <2>2. \A i \in DOMAIN k2.upd : i + 1 \in DOMAIN k.upd /\ k2.upd[i] = k.upd[i + 1]
    BY <2>1
  <2>3. k2.src = s /\ (\E i \in DOMAIN k2.upd : k2.upd[i].dir = d /\ k2.upd[i].rev = c) => KnowsRev(k, s, d, c)
    BY <2>1, <2>2 DEF KnowsRev
  <2>4. k2.buf[s][d].rev = c => state[s][d].rev = c \/ KnowsRev(k, s, d, c)
    <3> HIDE DEF u
    <3>1. u.dir \in Way
      BY <2>1 DEF Update
    <3>2. CASE k.src = s /\ u.dir = d
      <4>1. k2.buf[s][d].rev = IF u.rev = None THEN state[s][d].rev ELSE u.rev
        BY <1>0, <2>1, <3>1, <3>2 DEF Apply, State
      <4> QED
        BY <2>1, <3>2, <4>1 DEF KnowsRev
    <3>3. CASE ~(k.src = s /\ u.dir = d)
      <4>1. k2.buf[s][d] = state[s][d]
        BY <1>0, <2>1, <3>1, <3>3 DEF Apply, State
      <4> QED
        BY <4>1
    <3> QED
      BY <3>2, <3>3
  <2> QED
    BY <1>2, <1>6, <2>3, <2>4 DEF KnowsRev, k
<1>7. CASE k2 = [k EXCEPT !.pc = "save"] /\ state' = NoState
  <2>1. k2.src = k.src /\ k2.upd = k.upd /\ k2.buf = k.buf
    BY <1>0, <1>7 DEF ThreadRec
  <2> QED
    BY <1>2, <1>3, <1>7, <2>1 DEF KnowsRev, k
<1>8. CASE Saves(k, k2) /\ state' = k.buf
  BY <1>2, <1>3, <1>8 DEF KnowsRev, Saves, k
<1>9. CASE Drops(k, k2) /\ state' \in {state, NoState}
  BY <1>0, <1>2, <1>3, <1>9 DEF KnowsRev, Drops, k
<1> QED
  BY <1>1, <1>4, <1>5, <1>6, <1>7, <1>8, <1>9 DEF k

LEMMA RecordStep ==
    ASSUME SyncAssumption, TypeInv, GitInv, [Next]_vars,
           NEW s \in Source, Local(s), NEW d \in Way, NEW c \in Nat, OnRecord(s, d, c)'
    PROVE  OnRecord(s, d, c) \/ c = Current(s, d)
<1>0. thread \in [Thread -> ThreadRec] /\ c # None
  BY DEF TypeInv, TypeOK, SyncAssumption
<1>1. ~(NoState[s][d].rev = c)
  BY <1>0 DEF NoState, NoEntry
<1>2. state'[s][d].rev = c \/ \E t \in Thread : KnowsRev(thread'[t], s, d, c)
  BY DEF OnRecord, KnowsRev
\* Threads that end or begin know nothing.
<1>3. ASSUME NEW t \in Thread, NEW k2 \in ThreadRec, Become(t, k2), ~KnowsRev(k2, s, d, c), state' = state
      PROVE  OnRecord(s, d, c)
  BY <1>0, <1>2, <1>3 DEF OnRecord, Become
<1>4. CASE Spawns
  <2>1. PICK t \in Thread, r \in Source, isJob \in BOOLEAN, w \in {"push", "pull", "both"} :
            Spawn(t, r, isJob, w)
    BY <1>4 DEF Spawns
  <2>2. state' = state
    BY <2>1, SpawnForm
  <2>3. PICK k2 \in ThreadRec :
                 /\ Become(t, k2) /\ k2.buf = NoState
                 /\ \/ k2.pc = "check" /\ k2.upd = <<>> /\ k2.next = "idle"
                    \/ \E k \in ThreadRec : k.pc = "idle" /\ k.src = r /\ k.orig = Home /\ Starts(k, k2, None)
    BY <2>1, SpawnForm
  <2>4. ~KnowsRev(k2, s, d, c)
    BY <1>0, <1>1, <2>3 DEF KnowsRev, Starts
  <2> QED
    BY <1>3, <2>2, <2>3, <2>4
<1>5. ASSUME NEW t \in Thread, WorkStep(t)
      PROVE  OnRecord(s, d, c) \/ c = Current(s, d)
  <2>1. PICK k2 \in ThreadRec : Become(t, k2)
    BY <1>5, WorkStepThread
  <2>2. CASE state'[s][d].rev = c \/ KnowsRev(thread'[t], s, d, c)
    BY <1>5, <2>2, ThreadRecord DEF OnRecord
  <2>3. ASSUME NEW u \in Thread, u # t, KnowsRev(thread'[u], s, d, c)
        PROVE  OnRecord(s, d, c)
    BY <1>0, <2>1, <2>3 DEF Become, OnRecord
  <2> QED
    BY <1>2, <2>2, <2>3
<1>6. ASSUME NEW t \in Thread, Ends(t)
      PROVE  OnRecord(s, d, c)
  <2>1. PICK k2 \in ThreadRec : Become(t, k2) /\ k2.upd = <<>> /\ k2.buf = NoState
    BY <1>6, EndsForm
  <2>2. ~KnowsRev(k2, s, d, c)
    BY <1>1, <2>1 DEF KnowsRev
  <2>3. state' = state
    BY <1>6 DEF Ends, _sync_worker, cleanup_job
  <2> QED
    BY <1>3, <2>1, <2>2, <2>3
<1>7. UNCHANGED <<thread, state>> => OnRecord(s, d, c)
  BY <1>2 DEF OnRecord
<1>8. ASSUME NEW r \in Source, EditStorage(r) \/ EditExternal(r) \/ Refresh(r)
      PROVE  OnRecord(s, d, c)
  BY <1>7, <1>8 DEF EditStorage, EditExternal, Refresh
<1>9. CASE Restart
  <2>1. state' = state /\ \A t \in Thread : thread'[t] = NoThread
    BY <1>9 DEF Restart
  <2>2. ~KnowsRev(NoThread, s, d, c)
    BY <1>1 DEF KnowsRev, NoThread
  <2> QED
    BY <1>2, <2>1, <2>2 DEF OnRecord
<1>10. CASE UNCHANGED vars
  BY <1>7, <1>10 DEF vars
<1> QED
  BY <1>4, <1>5, <1>6, <1>8, <1>9, <1>10, NextForms

\* What a step may do to a source of mode local.
SameData(s) == store'[s] = store[s] /\ ext'[s].tree = ext[s].tree /\ edited'[s] = edited[s]
EditsStore(s) ==
    /\ store'[s] = edits + 2 /\ edits' = edits + 1 /\ ext'[s].tree = ext[s].tree
    /\ edited'[s] = edited[s] \cup {"store"}
EditsExt(s) ==
    /\ ext'[s].tree = edits + 2 /\ edits' = edits + 1 /\ store'[s] = store[s]
    /\ edited'[s] = edited[s] \cup {"ext"}
ClearsStore(s) == store'[s] = Torn /\ ext'[s].tree = ext[s].tree /\ edited'[s] = edited[s] \ {"store"}
ClearsExt(s) == ext'[s].tree = Torn /\ store'[s] = store[s] /\ edited'[s] = edited[s] \ {"ext"}
Copies(s) == store'[s] = ext'[s].tree /\ store'[s] \in {store[s], ext[s].tree} /\ edited'[s] = {}

LEMMA WorkData ==
    ASSUME SyncAssumption, TypeInv, GitInv, NEW t \in Thread, WorkStep(t), NEW s \in Source, Local(s)
    PROVE  SameData(s) \/ ClearsStore(s) \/ ClearsExt(s) \/ Copies(s)
<1> DEFINE k == thread[t]
<1>0. /\ store \in [Source -> Content] /\ ext \in [Source -> [mode : Modes, tree : Content]]
      /\ edited \in [Source -> SUBSET {"store", "ext"}] /\ cwd \in Source \cup {Home}
      /\ GoodThread(k)
  BY DEF TypeInv, TypeOK
<1>1. ASSUME NEW c \in Content, WriteTarget(k, c), k.src \in Source
      PROVE  /\ k.src # s => store'[s] = store[s] /\ ext'[s].tree = ext[s].tree
             /\ k.src = s /\ Push(k) => store'[s] = store[s] /\ ext'[s].tree = c
             /\ k.src = s /\ ~Push(k) => store'[s] = c /\ ext'[s].tree = ext[s].tree
  <2>1. CASE ~Push(k)
    BY <1>0, <1>1, <2>1 DEF WriteTarget
  <2>2. CASE Push(k) /\ Mode(k.src) = "git"
    <3>1. store' = store /\ ext' = ext /\ k.src # s
      BY <1>1, <2>2 DEF WriteTarget, Local
    <3> QED
      BY <3>1
  <2>3. CASE Push(k) /\ Mode(k.src) # "git"
    <3>1. store' = store /\ ext' = [ext EXCEPT ![k.src].tree = c]
      BY <1>1, <2>3 DEF WriteTarget
    <3> QED
      BY <1>0, <1>1, <2>3, <3>1
  <2> QED
    BY <2>1, <2>2, <2>3
<1>2. CASE Clear(t)
  <2>1. /\ k.src \in Source /\ WriteTarget(k, Torn) /\ Torn \in Content
        /\ edited' = [edited EXCEPT ![k.src] = edited[k.src] \ {Target(k)}]
    BY <1>0, <1>2 DEF Clear, GoodThread, Content
  <2>2. edited'[s] = IF k.src = s THEN edited[s] \ {Target(k)} ELSE edited[s]
    BY <1>0, <2>1
  <2> QED
    BY <1>1, <2>1, <2>2 DEF Target, SameData, ClearsStore, ClearsExt
<1>3. CASE Fill(t)
  <2>1. /\ k.src \in Source /\ WriteTarget(k, From(k))
        /\ edited' = [edited EXCEPT ![k.src] = {}]
    BY <1>0, <1>3 DEF Fill, GoodThread
  <2>2. edited'[s] = IF k.src = s THEN {} ELSE edited[s]
    BY <1>0, <2>1
  <2>3. From(k) \in Content
    BY <2>1 DEF From, TypeInv, TypeOK
  <2>4. k.src = s => From(k) = IF Push(k) THEN store[s] ELSE ext[s].tree
    BY DEF From, Local
  <2> QED
    BY <1>1, <2>1, <2>2, <2>3, <2>4 DEF SameData, Copies
<1>4. CASE GitPush(t)
  <2>1. /\ ext' = [ext EXCEPT ![cwd].tree = clone[cwd].head] /\ store' = store /\ edited' = edited /\ cwd # Home
    BY <1>4 DEF GitPush
  <2>2. cwd # s
    BY <2>1 DEF GitInv
  <2> QED
    BY <1>0, <2>1, <2>2 DEF SameData
<1>5. CASE CheckConflict(t) \/ _load_sync_state(t) \/ Truncate(t) \/ _save_sync_state(t) \/ SaveFails(t)
           \/ _compute_revision(t) \/ Fail(t) \/ ResolveGit(t)
  BY <1>5 DEF CheckConflict, _load_sync_state, Truncate, _save_sync_state, SaveFails, _compute_revision, Fail,
              ResolveGit, SameData
<1>6. CASE Chdir(t) \/ Commit(t) \/ RevParse(t) \/ GitFails(t) \/ Restore(t)
  BY <1>6 DEF Chdir, Commit, RevParse, GitFails, Restore, SameData
<1> QED
  BY <1>2, <1>3, <1>4, <1>5, <1>6 DEF WorkStep

LEMMA LocalData ==
    ASSUME SyncAssumption, TypeInv, GitInv, [Next]_vars, NEW s \in Source, Local(s)
    PROVE  /\ edits' = edits \/ edits' = edits + 1
           /\ SameData(s) \/ EditsStore(s) \/ EditsExt(s) \/ ClearsStore(s) \/ ClearsExt(s) \/ Copies(s)
<1>0. /\ store \in [Source -> Content] /\ ext \in [Source -> [mode : Modes, tree : Content]]
      /\ edited \in [Source -> SUBSET {"store", "ext"}]
  BY DEF TypeInv, TypeOK
<1>1. UNCHANGED <<store, ext, edited>> => SameData(s)
  BY DEF SameData
<1>2. CASE Spawns
  <2>1. UNCHANGED <<store, ext, edited, edits>>
    BY <1>2 DEF Spawns, Spawn
  <2> QED
    BY <1>1, <2>1
<1>3. ASSUME NEW t \in Thread, WorkStep(t)
      PROVE  edits' = edits /\ (SameData(s) \/ ClearsStore(s) \/ ClearsExt(s) \/ Copies(s))
  BY <1>3, WorkData, WorkFrame
<1>4. ASSUME NEW t \in Thread, Ends(t)
      PROVE  edits' = edits /\ SameData(s)
  BY <1>1, <1>4 DEF Ends, _sync_worker, cleanup_job
<1>5. ASSUME NEW r \in Source, EditStorage(r)
      PROVE  edits' = edits + 1 /\ (SameData(s) \/ EditsStore(s))
  <2>1. /\ store' = [store EXCEPT ![r] = edits + 2] /\ edits' = edits + 1 /\ ext' = ext
        /\ edited' = [edited EXCEPT ![r] = Edited(r, "store")]
    BY <1>5 DEF EditStorage
  <2>2. r = s => Edited(r, "store") = edited[s] \cup {"store"}
    BY DEF Edited, Local
  <2> QED
    BY <1>0, <2>1, <2>2 DEF SameData, EditsStore
<1>6. ASSUME NEW r \in Source, EditExternal(r)
      PROVE  edits' = edits + 1 /\ (SameData(s) \/ EditsExt(s))
  <2>1. /\ ext' = [ext EXCEPT ![r].tree = edits + 2] /\ edits' = edits + 1 /\ store' = store
        /\ edited' = [edited EXCEPT ![r] = Edited(r, "ext")]
    BY <1>6 DEF EditExternal
  <2>2. r = s => Edited(r, "ext") = edited[s] \cup {"ext"}
    BY DEF Edited, Local
  <2> QED
    BY <1>0, <2>1, <2>2 DEF SameData, EditsExt
<1>7. CASE Restart \/ UNCHANGED vars \/ \E r \in Source : Refresh(r)
  BY <1>1, <1>7 DEF Restart, Refresh, vars
<1> QED
  BY <1>2, <1>3, <1>4, <1>5, <1>6, <1>7, NextForms

\* The next edit makes a content that is nowhere yet.
FreshInv ==
    \A s \in Source : Local(s) =>
        /\ store[s] \in Nat => store[s] < edits + 2
        /\ ext[s].tree \in Nat => ext[s].tree < edits + 2
        /\ \A d \in Way, c \in Nat : OnRecord(s, d, c) => c < edits + 2

\* An edit that no sync has copied or overwritten since differs from the other
\* side and from the revision it is compared with, and from any that may get there.
EditInv ==
    \A s \in Source : Local(s) =>
        /\ "store" \in edited[s] =>
               store[s] \in Nat /\ store[s] # ext[s].tree /\ ~OnRecord(s, "push", store[s])
        /\ "ext" \in edited[s] =>
               ext[s].tree \in Nat /\ store[s] # ext[s].tree /\ ~OnRecord(s, "pull", ext[s].tree)

\* OnRecord in the next state.
NextRecord(s, d, c) == state'[s][d].rev = c \/ \E t \in Thread : KnowsRev(thread'[t], s, d, c)

LEMMA NextRecordIs ==
    /\ \A s, d, c : OnRecord(s, d, c)' <=> NextRecord(s, d, c)
    /\ \A s : OnRecord(s, "push", store[s])' <=> NextRecord(s, "push", store'[s])
    /\ \A s : OnRecord(s, "pull", ext[s].tree)' <=> NextRecord(s, "pull", ext'[s].tree)
  BY DEF OnRecord, NextRecord, KnowsRev

LEMMA EditStep ==
    ASSUME SyncAssumption, TypeInv, GitInv, FreshInv, EditInv, [Next]_vars
    PROVE  FreshInv' /\ EditInv'
<1>0. /\ store \in [Source -> Content] /\ ext \in [Source -> [mode : Modes, tree : Content]]
      /\ edited \in [Source -> SUBSET {"store", "ext"}] /\ edits \in Nat /\ Torn \notin Nat
  BY DEF TypeInv, TypeOK, SyncAssumption
<1>1. \A s \in Source : Local(s)' <=> Local(s)
  BY ModeStays DEF Local
<1> SUFFICES ASSUME NEW s \in Source, Local(s)
             PROVE  /\ (store[s] \in Nat => store[s] < edits + 2)'
                    /\ (ext[s].tree \in Nat => ext[s].tree < edits + 2)'
                    /\ \A d \in Way, c \in Nat : OnRecord(s, d, c)' => c < edits' + 2
                    /\ ("store" \in edited[s] =>
                           store[s] \in Nat /\ store[s] # ext[s].tree /\ ~OnRecord(s, "push", store[s]))'
                    /\ ("ext" \in edited[s] =>
                           ext[s].tree \in Nat /\ store[s] # ext[s].tree /\ ~OnRecord(s, "pull", ext[s].tree))'
  BY <1>1 DEF FreshInv, EditInv
<1>2. /\ edits' = edits \/ edits' = edits + 1
      /\ SameData(s) \/ EditsStore(s) \/ EditsExt(s) \/ ClearsStore(s) \/ ClearsExt(s) \/ Copies(s)
  BY LocalData
<1>3. \A d \in Way, c \in Nat : NextRecord(s, d, c) => OnRecord(s, d, c) \/ c = Current(s, d)
  BY RecordStep, NextRecordIs
<1>4. \A c \in Nat : /\ NextRecord(s, "push", c) => OnRecord(s, "push", c) \/ c = ext[s].tree
                     /\ NextRecord(s, "pull", c) => OnRecord(s, "pull", c) \/ c = store[s]
  BY <1>3 DEF Current, Way
<1>5. /\ store[s] \in Nat => store[s] < edits + 2
      /\ ext[s].tree \in Nat => ext[s].tree < edits + 2
      /\ \A d \in Way, c \in Nat : OnRecord(s, d, c) => c < edits + 2
  BY DEF FreshInv
<1>6. /\ "store" \in edited[s] =>
             store[s] \in Nat /\ store[s] # ext[s].tree /\ ~OnRecord(s, "push", store[s])
      /\ "ext" \in edited[s] =>
             ext[s].tree \in Nat /\ store[s] # ext[s].tree /\ ~OnRecord(s, "pull", ext[s].tree)
  BY DEF EditInv
<1>7. \A d \in Way, c \in Nat : NextRecord(s, d, c) => c < edits + 2
  BY <1>3, <1>5 DEF Current
<1>8. /\ (store[s] \in Nat => store[s] < edits + 2)'
      /\ (ext[s].tree \in Nat => ext[s].tree < edits + 2)'
      /\ \A d \in Way, c \in Nat : NextRecord(s, d, c) => c < edits' + 2
  <2>1. store'[s] \in Nat => store'[s] < edits' + 2
    BY <1>0, <1>2, <1>5 DEF SameData, EditsStore, EditsExt, ClearsStore, ClearsExt, Copies
  <2>2. ext'[s].tree \in Nat => ext'[s].tree < edits' + 2
    BY <1>0, <1>2, <1>5 DEF SameData, EditsStore, EditsExt, ClearsStore, ClearsExt, Copies
  <2> QED
    BY <1>0, <1>2, <1>7, <2>1, <2>2
<1>9. ASSUME "store" \in edited'[s]
      PROVE  store'[s] \in Nat /\ store'[s] # ext'[s].tree /\ ~NextRecord(s, "push", store'[s])
  <2>1. CASE EditsStore(s)
    <3>1. store'[s] = edits + 2 /\ ext'[s].tree = ext[s].tree /\ edits + 2 \in Nat
      BY <1>0, <2>1 DEF EditsStore
    <3>2. ~NextRecord(s, "push", store'[s])
      BY <1>0, <1>7, <3>1 DEF Way
    <3> QED
      BY <1>0, <1>5, <3>1, <3>2
  <2>2. CASE SameData(s) \/ EditsExt(s) \/ ClearsExt(s)
    <3>1. store'[s] = store[s] /\ "store" \in edited[s]
      BY <1>9, <2>2 DEF SameData, EditsExt, ClearsExt
    <3>2. ext'[s].tree \in {ext[s].tree, edits + 2, Torn}
      BY <2>2 DEF SameData, EditsExt, ClearsExt
    <3>3. ~NextRecord(s, "push", store'[s])
      BY <1>4, <1>6, <3>1
    <3> QED
      BY <1>0, <1>5, <1>6, <3>1, <3>2, <3>3
  <2> QED
    BY <1>2, <1>9, <2>1, <2>2 DEF ClearsStore, Copies
<1>10. ASSUME "ext" \in edited'[s]
       PROVE  ext'[s].tree \in Nat /\ store'[s] # ext'[s].tree /\ ~NextRecord(s, "pull", ext'[s].tree)
  <2>1. CASE EditsExt(s)
    <3>1. ext'[s].tree = edits + 2 /\ store'[s] = store[s] /\ edits + 2 \in Nat
      BY <1>0, <2>1 DEF EditsExt
    <3>2. ~NextRecord(s, "pull", ext'[s].tree)
      BY <1>0, <1>7, <3>1 DEF Way
    <3> QED
      BY <1>0, <1>5, <3>1, <3>2
  <2>2. CASE SameData(s) \/ EditsStore(s) \/ ClearsStore(s)
    <3>1. ext'[s].tree = ext[s].tree /\ "ext" \in edited[s]
      BY <1>10, <2>2 DEF SameData, EditsStore, ClearsStore
    <3>2. store'[s] \in {store[s], edits + 2, Torn}
      BY <2>2 DEF SameData, EditsStore, ClearsStore
    <3>3. ~NextRecord(s, "pull", ext'[s].tree)
      BY <1>4, <1>6, <3>1
    <3> QED
      BY <1>0, <1>5, <1>6, <3>1, <3>2, <3>3
  <2> QED
    BY <1>2, <1>10, <2>1, <2>2 DEF ClearsExt, Copies
<1> QED
  BY <1>8, <1>9, <1>10, NextRecordIs

LEMMA EditInit == ASSUME SyncAssumption, Init PROVE GitInv /\ FreshInv /\ EditInv
<1>1. /\ \A t \in Thread : thread[t] = NoThread
      /\ \A s \in Source : store[s] = 0 /\ ext[s].tree = 1 /\ edited[s] = {}
      /\ state = NoState /\ cwd = Home /\ edits = 0
  BY DEF Init
<1>2. NoThread.orig = Home /\ NoThread.pc = "idle" /\ NoThread.next = "idle"
      /\ NoThread.buf = NoState /\ NoThread.upd = <<>>
  BY DEF NoThread
<1>3. GitInv
  BY <1>1, <1>2 DEF GitInv, GitThread, GitPC
<1>4. ASSUME NEW s \in Source, NEW d \in Way, NEW c \in Nat
      PROVE  ~OnRecord(s, d, c)
  <2>1. NoState[s][d].rev # c
    BY SyncAssumption DEF NoState, NoEntry, SyncAssumption
  <2> QED
    BY <1>1, <1>2, <2>1 DEF OnRecord, KnowsRev
<1> QED
  BY <1>1, <1>3, <1>4 DEF FreshInv, EditInv

LEMMA CheckStep ==
    ASSUME SyncAssumption, TypeInv, GitInv, [Next]_vars, NEW t \in Thread,
           thread[t].pc = "check", thread'[t].pc = "load"
    PROVE  CheckConflict(t)
<1>0. thread \in [Thread -> ThreadRec] /\ thread[t] # NoThread /\ thread'[t] # thread[t] /\ thread'[t] # NoThread
  BY DEF TypeInv, TypeOK, NoThread
<1>1. ~Spawns
  <2>1. ASSUME NEW u \in Thread, NEW s \in Source, NEW isJob \in BOOLEAN, NEW d \in {"push", "pull", "both"},
               Spawn(u, s, isJob, d)
        PROVE  FALSE
    <3>1. thread[u] = NoThread /\ \E k2 \in ThreadRec : Become(u, k2)
      BY <2>1, SpawnForm
    <3> QED
      BY <1>0, <3>1 DEF Become
  <2> QED
    BY <2>1 DEF Spawns
<1>2. ASSUME NEW u \in Thread, Ends(u)
      PROVE  FALSE
  <2>1. thread[u].pc \in {"done", "cleanup"} /\ \E k2 \in ThreadRec : Become(u, k2)
    BY <1>2, EndOfSync DEF Ends, _sync_worker, cleanup_job
  <2> QED
    BY <1>0, <2>1 DEF Become
<1>3. PICK u \in Thread : WorkStep(u)
  BY <1>0, <1>1, <1>2, NextForms DEF EditStorage, EditExternal, Refresh, Restart, vars
<1>4. u = t
  BY <1>0, <1>3, WorkStepThread DEF Become
<1> QED
  BY <1>3, <1>4 DEF WorkStep, CheckConflict, _load_sync_state, Truncate, _save_sync_state, SaveFails, Clear, Fill,
     _compute_revision, Fail, ResolveGit, Chdir, Commit, GitPush, RevParse, GitFails, Restore

\* While both revisions of a source of mode local are on record, a sync in both
\* directions never goes ahead when each side has an edit that no sync has copied or
\* overwritten since: whatever torn copies, restarts and edits between a copy and its
\* revision came before, each side differs from the revision on record.  Nothing is
\* said of a source whose records are lost, nor of mode git.
THEOREM ConflictSeenHolds == Spec => ConflictSeen
<1> DEFINE Step == \A t \in Thread :
                      LET s == thread[t].src
                      IN  thread[t].pc = "check" /\ thread'[t].pc = "load" /\ thread'[t].ok /\ Mode(s) = "local"
                          /\ Recorded(s, "push") /\ Recorded(s, "pull")
                          => edited[s] # {"store", "ext"}
<1>1. TypeInv /\ GitInv /\ EditInv /\ [Next]_vars => [Step]_vars
  <2> SUFFICES ASSUME TypeInv, GitInv, EditInv, [Next]_vars, NEW t \in Thread, NEW s, s = thread[t].src,
                      thread[t].pc = "check", thread'[t].pc = "load", thread'[t].ok, Mode(s) = "local",
                      Recorded(s, "push"), Recorded(s, "pull"), edited[s] = {"store", "ext"}
               PROVE  FALSE
    OBVIOUS
  <2>1. CheckConflict(t)
    BY SyncAssumption, CheckStep
  <2>2. s \in Source /\ thread[t] \in ThreadRec /\ thread \in [Thread -> ThreadRec]
    BY DEF TypeInv, TypeOK, GoodThread
  <2>3. _detect_conflict(s)
    <3>1. store[s] # state[s]["push"].rev /\ ext[s].tree # state[s]["pull"].rev
      BY <2>2 DEF EditInv, Local, OnRecord
    <3> QED
      BY <3>1 DEF _detect_conflict
  <2> DEFINE e == [thread[t] EXCEPT !.legs = <<>>, !.ok = FALSE]
  <2>4. thread'[t] = Updating(e, <<Upd("push", "failed", None), Upd("pull", "failed", None)>>, "done")
    BY <2>1, <2>2, <2>3 DEF CheckConflict, Become
  <2>5. e \in ThreadRec /\ e.ok = FALSE
    <3>1. <<>> \in Seq(Way)
      OBVIOUS
    <3> QED
      BY <2>2, <3>1 DEF ThreadRec
  <2> HIDE DEF e
  <2>6. thread'[t].ok = FALSE
    BY <2>4, <2>5 DEF Updating, ThreadRec
  <2> QED
    BY <2>6
<1>2. Init => TypeInv /\ GitInv /\ FreshInv /\ EditInv
  BY SyncAssumption, InitType, EditInit
<1>3. TypeInv /\ GitInv /\ FreshInv /\ EditInv /\ [Next]_vars => TypeInv' /\ GitInv' /\ FreshInv' /\ EditInv'
  BY SyncAssumption, TypeStep, GitStep, EditStep
<1> QED
  BY <1>1, <1>2, <1>3, PTL DEF Spec, ConflictSeen

=============================================================================
