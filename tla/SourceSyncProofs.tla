-------------------------- MODULE SourceSyncProofs --------------------------
(***************************************************************************)
(* Theorems about SourceSync for any number of sources, threads, syncs,    *)
(* edits and restarts: type correctness, and that the job of a source is   *)
(* executed by exactly one thread.                                         *)
(***************************************************************************)
EXTENDS SourceSync, TLAPS, SequenceTheorems

-----------------------------------------------------------------------------
(* Threads.                                                                *)

InUpdate == {"load", "truncate", "save"}
AfterUpdate == {"resolve", "clear", "done"}

\* The steps at which the current direction is the first of those left.
InLeg == {"check", "resolve", "clear", "fill", "hash", "chdir", "commit", "push", "head", "restore"}

\* A thread that is not idle has a source, a direction where it works on one,
\* and an update where it makes one.
GoodThread(k) ==
    /\ k.pc # "idle" => k.src \in Source
    /\ k.pc \in InUpdate => k.next \in AfterUpdate
    /\ k.pc = "load" => k.upd # <<>>
    /\ k.pc \in InLeg => k.legs # <<>>
    /\ k.pc \in InUpdate /\ k.next # "done" => k.legs # <<>>

TypeInv ==
    /\ TypeOK
    /\ \A t \in Thread : GoodThread(thread[t])

Atwork(k) == k.pc \notin {"idle", "cleanup"}

\* What a step of a thread leaves alone.
SameSync(k, k2) == Atwork(k2) /\ k2.src = k.src /\ k2.job = k.job

LEMMA NoneType == None \in Content \cup {None} /\ "idle" \in PC
  BY DEF PC

LEMMA NoStateType == NoState \in State
  BY DEF NoState, State, Entry, NoEntry

LEMMA NoThreadType == NoThread \in ThreadRec /\ GoodThread(NoThread) /\ ~Atwork(NoThread)
<1>1. NoThread \in ThreadRec
  BY NoStateType DEF NoThread, ThreadRec, PC
<1> QED
  BY <1>1 DEF NoThread, GoodThread, InUpdate, InLeg, Atwork

LEMMA UpdType ==
    ASSUME NEW d \in Way, NEW st \in {"running", "ok", "failed"}, NEW rev \in Content \cup {None}
    PROVE  Upd(d, st, rev) \in Update
  BY DEF Upd, Update

LEMMA UpdatingType ==
    ASSUME NEW k \in ThreadRec, k.src \in Source, NEW u \in Seq(Update), u # <<>>,
           NEW next \in AfterUpdate, next # "done" => k.legs # <<>>
    PROVE  /\ Updating(k, u, next) \in ThreadRec
           /\ GoodThread(Updating(k, u, next))
           /\ SameSync(k, Updating(k, u, next))
<1> DEFINE k2 == Updating(k, u, next)
<1>1. k2 \in ThreadRec
  BY DEF Updating, ThreadRec, PC, AfterUpdate
<1>2. k2.pc = "load" /\ k2.src = k.src /\ k2.job = k.job /\ k2.upd = u /\ k2.next = next /\ k2.legs = k.legs
  BY DEF Updating, ThreadRec
<1> HIDE DEF k2
<1>3. GoodThread(k2) /\ SameSync(k, k2)
  <2>1. "load" \notin InLeg /\ "load" \in InUpdate
    BY DEF InLeg, InUpdate
  <2>2. GoodThread(k2)
    BY <1>2, <2>1 DEF GoodThread
  <2> QED
    BY <1>2, <2>2 DEF SameSync, Atwork
<1> QED
  BY <1>1, <1>3 DEF k2

LEMMA DirectionType ==
    ASSUME NEW k \in ThreadRec, k.src \in Source, k.legs # <<>>, NEW u \in Seq(Update)
    PROVE  /\ _execute_sync_direction(k, u) \in ThreadRec
           /\ GoodThread(_execute_sync_direction(k, u))
           /\ SameSync(k, _execute_sync_direction(k, u))
<1> DEFINE first == Upd(Head(k.legs), "running", None)
           next == IF Mode(k.src) = "git" THEN "resolve" ELSE "clear"
<1>1. first \in Update
  <2>1. Head(k.legs) \in Way
    BY DEF ThreadRec
  <2> QED
    BY <2>1, UpdType, NoneType
<1>2. next \in AfterUpdate
  BY DEF AfterUpdate
<1> HIDE DEF first, next
<1>3. Append(u, first) \in Seq(Update) /\ Append(u, first) # <<>>
  <2>1. Append(u, first) \in Seq(Update) /\ Len(Append(u, first)) = Len(u) + 1 /\ Len(u) \in Nat
    BY <1>1
  <2>2. Len(<<>>) = 0
    OBVIOUS
  <2> QED
    BY <2>1, <2>2
<1>4. /\ Updating(k, Append(u, first), next) \in ThreadRec
      /\ GoodThread(Updating(k, Append(u, first), next))
      /\ SameSync(k, Updating(k, Append(u, first), next))
  BY <1>2, <1>3, UpdatingType
<1> QED
  BY <1>4 DEF _execute_sync_direction, first, next

LEMMA LegEndsType ==
    ASSUME NEW k \in ThreadRec, k.legs # <<>>
    PROVE  /\ LegEnds(k) \in ThreadRec
           /\ LegEnds(k).legs = Tail(k.legs) /\ LegEnds(k).src = k.src /\ LegEnds(k).job = k.job
           /\ Head(k.legs) \in Way
<1>1. Tail(k.legs) \in Seq(Way) /\ Head(k.legs) \in Way
  BY DEF ThreadRec
<1> QED
  BY <1>1, NoneType DEF LegEnds, ThreadRec

LEMMA LegOkType ==
    ASSUME NEW k \in ThreadRec, k.src \in Source, k.legs # <<>>, NEW rev \in Content \cup {None}
    PROVE  LegOk(k, rev) \in ThreadRec /\ GoodThread(LegOk(k, rev)) /\ SameSync(k, LegOk(k, rev))
<1> DEFINE e == LegEnds(k)
           ended == <<Upd(Head(k.legs), "ok", rev)>>
<1>1. e \in ThreadRec /\ e.legs = Tail(k.legs) /\ e.src = k.src /\ e.job = k.job /\ Head(k.legs) \in Way
  BY LegEndsType
<1>2. ended \in Seq(Update) /\ ended # <<>>
  <2>1. Upd(Head(k.legs), "ok", rev) \in Update
    BY <1>1, UpdType
  <2> QED
    BY <2>1
<1>3. LegOk(k, rev) = IF Len(k.legs) = 1 THEN Updating(e, ended, "done") ELSE _execute_sync_direction(e, ended)
  BY DEF LegOk
<1> HIDE DEF e, ended
<1>4. Len(k.legs) # 1 => e.legs # <<>>
  <2>1. k.legs \in Seq(Way) /\ Len(k.legs) \in Nat
    BY DEF ThreadRec
  <2>2. Len(k.legs) # 0
    BY <2>1
  <2>3. Len(Tail(k.legs)) = Len(k.legs) - 1
    BY <2>1, <2>2
  <2>5. Len(k.legs) # 1 => Tail(k.legs) # <<>>
    <3> DEFINE rest == Tail(k.legs)
               n == Len(k.legs)
    <3>1. Len(rest) = n - 1 /\ n \in Nat
      BY <2>1, <2>3
    <3>2. rest = <<>> => Len(rest) = 0
      BY EmptySeq
    <3> HIDE DEF rest, n
    <3>3. n # 1 => rest # <<>>
      BY <3>1, <3>2
    <3> QED
      BY <3>3 DEF rest, n
  <2> QED
    BY <1>1, <2>5
<1>5. CASE Len(k.legs) = 1
  <2>1. "done" \in AfterUpdate
    BY DEF AfterUpdate
  <2>2. Updating(e, ended, "done") \in ThreadRec /\ GoodThread(Updating(e, ended, "done"))
        /\ SameSync(e, Updating(e, ended, "done"))
    BY <1>1, <1>2, <2>1, UpdatingType
  <2> QED
    BY <1>1, <1>3, <1>5, <2>2 DEF SameSync
<1>6. CASE Len(k.legs) # 1
  <2>1. /\ _execute_sync_direction(e, ended) \in ThreadRec
        /\ GoodThread(_execute_sync_direction(e, ended))
        /\ SameSync(e, _execute_sync_direction(e, ended))
    BY <1>1, <1>2, <1>4, <1>6, DirectionType
  <2> QED
    BY <1>1, <1>3, <1>6, <2>1 DEF SameSync
<1> QED
  BY <1>5, <1>6

LEMMA LegFailsType ==
    ASSUME NEW k \in ThreadRec, k.src \in Source, k.legs # <<>>
    PROVE  LegFails(k) \in ThreadRec /\ GoodThread(LegFails(k)) /\ SameSync(k, LegFails(k))
<1> DEFINE e == [LegEnds(k) EXCEPT !.legs = <<>>, !.ok = FALSE]
           ended == <<Upd(Head(k.legs), "failed", None)>>
<1>1. e \in ThreadRec /\ e.src = k.src /\ e.job = k.job
  <2> DEFINE l == LegEnds(k)
  <2>1. l \in ThreadRec /\ l.src = k.src /\ l.job = k.job
    BY LegEndsType
  <2>2. <<>> \in Seq(Way)
    OBVIOUS
  <2> HIDE DEF l
  <2>3. [l EXCEPT !.legs = <<>>, !.ok = FALSE] \in ThreadRec
    BY <2>1, <2>2 DEF ThreadRec
  <2>4. [l EXCEPT !.legs = <<>>, !.ok = FALSE].src = l.src /\ [l EXCEPT !.legs = <<>>, !.ok = FALSE].job = l.job
    BY <2>1 DEF ThreadRec
  <2> QED
    BY <2>1, <2>3, <2>4 DEF l
<1>2. ended \in Seq(Update) /\ ended # <<>>
  <2>1. Upd(Head(k.legs), "failed", None) \in Update
    BY LegEndsType, UpdType, NoneType
  <2> QED
    BY <2>1
<1>3. LegFails(k) = Updating(e, ended, "done") /\ "done" \in AfterUpdate
  BY DEF LegFails, AfterUpdate
<1> HIDE DEF e, ended
<1>4. Updating(e, ended, "done") \in ThreadRec /\ GoodThread(Updating(e, ended, "done"))
      /\ SameSync(e, Updating(e, ended, "done"))
  BY <1>1, <1>2, <1>3, UpdatingType
<1> QED
  BY <1>1, <1>3, <1>4 DEF SameSync

-----------------------------------------------------------------------------
(* The steps of a sync.                                                    *)

\* The types of what is not a thread or a job.
DataOK ==
    /\ store \in [Source -> Content]
    /\ ext \in [Source -> [mode : Modes, tree : Content]]
    /\ clone \in [Source -> [origin : Content, head : Content, work : Content, behind : BOOLEAN]]
    /\ state \in State
    /\ cwd \in Source \cup {Home}
    /\ syncs \in 0 .. MaxSyncs /\ edits \in 0 .. MaxEdits /\ restarts \in 0 .. MaxRestarts
    /\ edited \in [Source -> SUBSET {"store", "ext"}]
    /\ overlapped \in BOOLEAN /\ refreshed \subseteq Thread /\ unsaved \in BOOLEAN

\* The steps of a sync before its end.
WorkStep(t) ==
    \/ CheckConflict(t)
    \/ _load_sync_state(t) \/ Truncate(t) \/ _save_sync_state(t) \/ SaveFails(t)
    \/ Clear(t) \/ Fill(t) \/ _compute_revision(t) \/ Fail(t)
    \/ ResolveGit(t) \/ Chdir(t) \/ Commit(t) \/ GitPush(t) \/ RevParse(t)
    \/ GitFails(t) \/ Restore(t)

LEMMA ResolveType ==
    ASSUME TypeOK, NEW s \in Source, NEW force \in BOOLEAN, resolve_path(s, force)
    PROVE  clone' \in [Source -> [origin : Content, head : Content, work : Content, behind : BOOLEAN]]
<1>1. ASSUME NEW c \in Content, NEW b \in BOOLEAN, _clone_or_fetch(s, c, b)
      PROVE  clone' \in [Source -> [origin : Content, head : Content, work : Content, behind : BOOLEAN]]
  <2> DEFINE r == [origin |-> c, head |-> c, work |-> c, behind |-> b]
  <2>1. r \in [origin : Content, head : Content, work : Content, behind : BOOLEAN]
    OBVIOUS
  <2>2. clone' = [clone EXCEPT ![s] = r]
    BY <1>1 DEF _clone_or_fetch
  <2> HIDE DEF r
  <2> QED
    BY <2>1, <2>2 DEF TypeOK
<1>2. ext[s].tree \in Content /\ clone[s].origin \in Content /\ clone[s].behind \in BOOLEAN
  BY DEF TypeOK
<1>3. CASE _clone_or_fetch(s, ext[s].tree, FALSE)
  BY <1>1, <1>2, <1>3
<1>4. CASE _clone_or_fetch(s, clone[s].origin, clone[s].behind)
  BY <1>1, <1>2, <1>4
<1> QED
  BY <1>3, <1>4 DEF resolve_path, TypeOK

LEMMA TreeType ==
    ASSUME ext \in [Source -> [mode : Modes, tree : Content]], NEW s \in Source, NEW c \in Content
    PROVE  [ext EXCEPT ![s].tree = c] \in [Source -> [mode : Modes, tree : Content]]
<1> DEFINE r == [ext[s] EXCEPT !.tree = c]
<1>1. r \in [mode : Modes, tree : Content]
  OBVIOUS
<1>2. [ext EXCEPT ![s].tree = c] = [ext EXCEPT ![s] = r]
  OBVIOUS
<1> HIDE DEF r
<1> QED
  BY <1>1, <1>2

\* The same for each field of a clone.
LEMMA CloneType ==
    ASSUME clone \in [Source -> [origin : Content, head : Content, work : Content, behind : BOOLEAN]],
           NEW s \in Source, NEW c \in Content, NEW b \in BOOLEAN
    PROVE  LET Type == [Source -> [origin : Content, head : Content, work : Content, behind : BOOLEAN]]
           IN  /\ [clone EXCEPT ![s].work = c] \in Type
               /\ [clone EXCEPT ![s].head = c] \in Type
               /\ [clone EXCEPT ![s].origin = c] \in Type
               /\ [clone EXCEPT ![s].behind = b] \in Type
<1> DEFINE Rec == [origin : Content, head : Content, work : Content, behind : BOOLEAN]
<1>1. /\ [clone[s] EXCEPT !.work = c] \in Rec /\ [clone[s] EXCEPT !.head = c] \in Rec
      /\ [clone[s] EXCEPT !.origin = c] \in Rec /\ [clone[s] EXCEPT !.behind = b] \in Rec
  OBVIOUS
<1>2. ASSUME NEW r \in Rec PROVE [clone EXCEPT ![s] = r] \in [Source -> Rec]
  OBVIOUS
<1>3. /\ [clone EXCEPT ![s].work = c] = [clone EXCEPT ![s] = [clone[s] EXCEPT !.work = c]]
      /\ [clone EXCEPT ![s].head = c] = [clone EXCEPT ![s] = [clone[s] EXCEPT !.head = c]]
      /\ [clone EXCEPT ![s].origin = c] = [clone EXCEPT ![s] = [clone[s] EXCEPT !.origin = c]]
      /\ [clone EXCEPT ![s].behind = b] = [clone EXCEPT ![s] = [clone[s] EXCEPT !.behind = b]]
  OBVIOUS
<1> QED
  BY <1>1, <1>2, <1>3

LEMMA WriteTargetType ==
    ASSUME TypeOK, NEW k \in ThreadRec, k.src \in Source, NEW c \in Content, WriteTarget(k, c)
    PROVE  /\ store' \in [Source -> Content]
           /\ ext' \in [Source -> [mode : Modes, tree : Content]]
           /\ clone' \in [Source -> [origin : Content, head : Content, work : Content, behind : BOOLEAN]]
<1>0. /\ store \in [Source -> Content]
      /\ ext \in [Source -> [mode : Modes, tree : Content]]
      /\ clone \in [Source -> [origin : Content, head : Content, work : Content, behind : BOOLEAN]]
  BY DEF TypeOK
<1>1. CASE store' = [store EXCEPT ![k.src] = c] /\ UNCHANGED <<ext, clone>>
  BY <1>0, <1>1
<1>2. CASE clone' = [clone EXCEPT ![k.src].work = c] /\ UNCHANGED <<store, ext>>
  BY <1>0, <1>2, CloneType
<1>3. CASE ext' = [ext EXCEPT ![k.src].tree = c] /\ UNCHANGED <<store, clone>>
  BY <1>0, <1>3, TreeType
<1> QED
  BY <1>1, <1>2, <1>3 DEF WriteTarget

LEMMA ApplyType ==
    ASSUME NEW buf \in State, NEW s \in Source, NEW u \in Update
    PROVE  Apply(buf, s, u) \in State
<1> DEFINE old == buf[s][u.dir]
           new == [status |-> u.status, rev |-> IF u.rev = None THEN old.rev ELSE u.rev]
<1>1. u.dir \in Way /\ u.status \in {"running", "ok", "failed"} /\ u.rev \in Content \cup {None}
  BY DEF Update
<1>2. old \in Entry
  BY <1>1 DEF State
<1>3. new \in Entry
  BY <1>1, <1>2 DEF Entry
<1>4. Apply(buf, s, u) = [buf EXCEPT ![s] = [buf[s] EXCEPT ![u.dir] = new]]
  BY <1>1 DEF Apply, State
<1> HIDE DEF new
<1>5. buf[s] \in [Way -> Entry]
  BY DEF State
<1>6. [buf[s] EXCEPT ![u.dir] = new] \in [Way -> Entry]
  BY <1>3, <1>5
<1> QED
  BY <1>4, <1>6 DEF State

LEMMA WorkStepThread ==
    ASSUME SyncAssumption, TypeInv, NEW t \in Thread, WorkStep(t)
    PROVE  \E k2 \in ThreadRec :
               Become(t, k2) /\ GoodThread(k2) /\ Atwork(thread[t]) /\ SameSync(thread[t], k2)
<1> DEFINE k == thread[t]
<1>0. k \in ThreadRec /\ GoodThread(k) /\ state \in State /\ store \in [Source -> Content]
      /\ ext \in [Source -> [mode : Modes, tree : Content]]
      /\ clone \in [Source -> [origin : Content, head : Content, work : Content, behind : BOOLEAN]]
      /\ cwd \in Source \cup {Home}
  BY DEF TypeInv, TypeOK
<1> HIDE DEF k
<1>1. CASE k.pc \in InLeg
  <2>1. Atwork(k) /\ k.src \in Source /\ k.legs # <<>>
    BY <1>0, <1>1 DEF GoodThread, InLeg, Atwork
  \* Leaving a step of a direction for another one of it.
  <2>2. ASSUME NEW k2 \in ThreadRec, k2.pc \in InLeg, k2.src = k.src, k2.job = k.job, k2.legs = k.legs
        PROVE  GoodThread(k2) /\ SameSync(k, k2)
    BY <2>1, <2>2 DEF GoodThread, SameSync, Atwork, InLeg, InUpdate
  <2>3. CASE CheckConflict(t)
    <3> DEFINE e == [k EXCEPT !.legs = <<>>, !.ok = FALSE]
               u == <<Upd("push", "failed", None), Upd("pull", "failed", None)>>
    <3>1. Become(t, Updating(e, u, "done")) \/ Become(t, _execute_sync_direction(k, <<>>))
      BY <2>3 DEF CheckConflict, k
    <3>2. e \in ThreadRec /\ e.src = k.src /\ e.job = k.job
      <4>1. <<>> \in Seq(Way)
        OBVIOUS
      <4> QED
        BY <1>0, <4>1 DEF ThreadRec
    <3>3. u \in Seq(Update) /\ u # <<>>
      <4>1. Upd("push", "failed", None) \in Update /\ Upd("pull", "failed", None) \in Update
        BY UpdType, NoneType DEF Way
      <4> QED
        BY <4>1
    <3> HIDE DEF e, u
    <3>4. "done" \in AfterUpdate /\ <<>> \in Seq(Update)
      BY DEF AfterUpdate
    <3>5. /\ Updating(e, u, "done") \in ThreadRec /\ GoodThread(Updating(e, u, "done"))
          /\ SameSync(k, Updating(e, u, "done"))
      BY <2>1, <3>2, <3>3, <3>4, UpdatingType DEF SameSync
    <3>6. /\ _execute_sync_direction(k, <<>>) \in ThreadRec
          /\ GoodThread(_execute_sync_direction(k, <<>>))
          /\ SameSync(k, _execute_sync_direction(k, <<>>))
      BY <1>0, <2>1, <3>4, DirectionType
    <3> QED
      BY <2>1, <3>1, <3>5, <3>6 DEF k
  <2>4. CASE Fail(t)
    <3>1. Become(t, LegFails(k))
      BY <2>4 DEF Fail, k
    <3> QED
      BY <1>0, <2>1, <3>1, LegFailsType DEF k
  <2>5. CASE _compute_revision(t)
    <3> DEFINE rev == IF Push(k) THEN ext[k.src].tree ELSE store[k.src]
    <3>1. Become(t, LegOk(k, rev))
      BY <2>5 DEF _compute_revision, k
    <3>2. rev \in Content \cup {None}
      BY <1>0, <2>1
    <3> HIDE DEF rev
    <3> QED
      BY <1>0, <2>1, <3>1, <3>2, LegOkType DEF k
  <2>6. CASE Restore(t)
    <3>1. Become(t, LegOk(k, k.rev)) \/ Become(t, LegFails(k))
      BY <2>6 DEF Restore, k
    <3>2. k.rev \in Content \cup {None}
      BY <1>0 DEF ThreadRec
    <3> QED
      BY <1>0, <2>1, <3>1, <3>2, LegOkType, LegFailsType DEF k
  <2>7. ASSUME NEW pc \in InLeg
        PROVE  LET k2 == [k EXCEPT !.pc = pc]
               IN  k2 \in ThreadRec /\ GoodThread(k2) /\ SameSync(k, k2)
    <3> DEFINE k2 == [k EXCEPT !.pc = pc]
    <3>1. pc \in PC
      BY DEF InLeg, PC
    <3>2. k2 \in ThreadRec /\ k2.pc = pc /\ k2.src = k.src /\ k2.job = k.job /\ k2.legs = k.legs
      BY <1>0, <3>1 DEF ThreadRec
    <3> HIDE DEF k2
    <3>3. GoodThread(k2) /\ SameSync(k, k2)
      BY <2>2, <3>2
    <3> QED
      BY <3>2, <3>3 DEF k2
  <2>8. CASE Clear(t) \/ ResolveGit(t) \/ Commit(t) \/ GitPush(t)
    <3>1. \E pc \in {"fill", "clear", "push", "head"} : Become(t, [k EXCEPT !.pc = pc])
      BY <2>8 DEF Clear, ResolveGit, Commit, GitPush, k
    <3>2. {"fill", "clear", "push", "head"} \subseteq InLeg
      BY DEF InLeg
    <3> QED
      BY <2>1, <2>7, <3>1, <3>2 DEF k
  <2>9. CASE Fill(t)
    <3> DEFINE copied == IF Push(k) THEN From(k) ELSE None
               pc == IF Mode(k.src) = "git" THEN "chdir" ELSE "hash"
               k2 == [k EXCEPT !.copied = copied, !.pc = pc]
    <3>1. Become(t, k2)
      BY <2>9 DEF Fill, k
    <3>2. pc \in PC /\ pc \in InLeg
      BY DEF PC, InLeg
    <3>3. copied \in Content \cup {None}
      BY <1>0, <2>1 DEF From
    <3> HIDE DEF copied, pc
    <3>4. k2 \in ThreadRec /\ k2.pc = pc /\ k2.src = k.src /\ k2.job = k.job /\ k2.legs = k.legs
      BY <1>0, <3>2, <3>3 DEF ThreadRec
    <3> HIDE DEF k2
    <3> QED
      BY <2>1, <2>2, <3>1, <3>2, <3>4 DEF k
  <2>10. CASE Chdir(t)
    <3> DEFINE pc == IF Push(k) THEN "commit" ELSE "head"
               k2 == [k EXCEPT !.orig = cwd, !.pc = pc]
    <3>1. Become(t, k2)
      BY <2>10 DEF Chdir, k
    <3>2. pc \in PC /\ pc \in InLeg
      BY DEF PC, InLeg
    <3> HIDE DEF pc
    <3>3. k2 \in ThreadRec /\ k2.pc = pc /\ k2.src = k.src /\ k2.job = k.job /\ k2.legs = k.legs
      BY <1>0, <3>2 DEF ThreadRec
    <3> HIDE DEF k2
    <3> QED
      BY <2>1, <2>2, <3>1, <3>2, <3>3 DEF k
  <2>11. CASE GitFails(t)
    <3> DEFINE k2 == [k EXCEPT !.pc = "restore", !.ok = FALSE]
    <3>1. Become(t, k2)
      BY <2>11 DEF GitFails, k
    <3>2. k2 \in ThreadRec /\ k2.pc = "restore" /\ k2.src = k.src /\ k2.job = k.job /\ k2.legs = k.legs
      BY <1>0 DEF ThreadRec, PC
    <3>3. "restore" \in InLeg
      BY DEF InLeg
    <3> HIDE DEF k2
    <3> QED
      BY <2>1, <2>2, <3>1, <3>2, <3>3 DEF k
  <2>12. CASE RevParse(t)
    <3> DEFINE rev == clone[cwd].head
               k2 == [k EXCEPT !.pc = "restore", !.rev = rev]
    <3>1. Become(t, k2) /\ cwd \in Source
      BY <1>0, <2>12 DEF RevParse, k
    <3>2. rev \in Content
      BY <1>0, <3>1
    <3> HIDE DEF rev
    <3>3. k2 \in ThreadRec /\ k2.pc = "restore" /\ k2.src = k.src /\ k2.job = k.job /\ k2.legs = k.legs
      BY <1>0, <3>2 DEF ThreadRec, PC
    <3>4. "restore" \in InLeg
      BY DEF InLeg
    <3> HIDE DEF k2
    <3> QED
      BY <2>1, <2>2, <3>1, <3>3, <3>4 DEF k
  <2>13. ~(_load_sync_state(t) \/ Truncate(t) \/ _save_sync_state(t) \/ SaveFails(t))
    BY <1>1 DEF _load_sync_state, Truncate, _save_sync_state, SaveFails, InLeg, k
  <2> QED
    BY <2>3, <2>4, <2>5, <2>6, <2>8, <2>9, <2>10, <2>11, <2>12, <2>13 DEF WorkStep
<1>2. CASE k.pc \in InUpdate
  <2>1. /\ Atwork(k) /\ k.src \in Source /\ k.next \in AfterUpdate
        /\ k.next # "done" => k.legs # <<>>
        /\ k.pc = "load" => k.upd # <<>>
    BY <1>0, <1>2 DEF GoodThread, InUpdate, Atwork
  <2>2. ASSUME NEW k2 \in ThreadRec, k2.src = k.src, k2.job = k.job, k2.legs = k.legs,
               \/ k2.pc \in InUpdate /\ k2.next = k.next /\ (k2.pc = "load" => k2.upd # <<>>)
               \/ k2.pc = k.next
        PROVE  GoodThread(k2) /\ SameSync(k, k2)
    BY <2>1, <2>2 DEF GoodThread, SameSync, Atwork, InLeg, InUpdate, AfterUpdate
  <2>3. CASE _load_sync_state(t)
    <3> DEFINE rest == Tail(k.upd)
               buf == Apply(state, k.src, Head(k.upd))
               k2 == [k EXCEPT !.pc = "truncate", !.upd = rest, !.buf = buf]
    <3>1. Become(t, k2) /\ k.upd \in Seq(Update) /\ k.upd # <<>>
      BY <1>0, <2>1, <2>3 DEF _load_sync_state, ThreadRec, k
    <3>2. rest \in Seq(Update) /\ buf \in State
      <4>1. rest \in Seq(Update) /\ Head(k.upd) \in Update
        BY <3>1
      <4> QED
        BY <1>0, <2>1, <4>1, ApplyType
    <3> HIDE DEF rest, buf
    <3>3. k2 \in ThreadRec /\ k2.pc = "truncate" /\ k2.next = k.next
          /\ k2.src = k.src /\ k2.job = k.job /\ k2.legs = k.legs
      BY <1>0, <3>2 DEF ThreadRec, PC
    <3> HIDE DEF k2
    <3> QED
      BY <2>1, <2>2, <3>1, <3>3 DEF InUpdate, k
  <2>4. CASE Truncate(t)
    <3> DEFINE k2 == [k EXCEPT !.pc = "save"]
    <3>1. Become(t, k2)
      BY <2>4 DEF Truncate, k
    <3>2. k2 \in ThreadRec /\ k2.pc = "save" /\ k2.next = k.next
          /\ k2.src = k.src /\ k2.job = k.job /\ k2.legs = k.legs
      BY <1>0 DEF ThreadRec, PC
    <3> HIDE DEF k2
    <3> QED
      BY <2>1, <2>2, <3>1, <3>2 DEF InUpdate, k
  <2>5. CASE _save_sync_state(t)
    <3> DEFINE pc == IF k.upd = <<>> THEN k.next ELSE "load"
               next == IF k.upd = <<>> THEN "idle" ELSE k.next
               k2 == [k EXCEPT !.buf = NoState, !.pc = pc, !.next = next]
    <3>1. Become(t, k2)
      BY <1>0, <2>5 DEF _save_sync_state, ThreadRec, k
    <3>2. pc \in PC /\ next \in PC
      BY <2>1 DEF PC, AfterUpdate
    <3>3. \/ pc = "load" /\ next = k.next /\ k.upd # <<>>
          \/ pc = k.next
      OBVIOUS
    <3> HIDE DEF pc, next
    <3>4. k2 \in ThreadRec /\ k2.pc = pc /\ k2.next = next /\ k2.upd = k.upd
          /\ k2.src = k.src /\ k2.job = k.job /\ k2.legs = k.legs
      BY <1>0, <3>2, NoStateType DEF ThreadRec
    <3> HIDE DEF k2
    <3>5. "load" \in InUpdate
      BY DEF InUpdate
    <3>6. GoodThread(k2) /\ SameSync(k, k2)
      BY <2>2, <3>3, <3>4, <3>5
    <3> QED
      BY <2>1, <3>1, <3>4, <3>6 DEF k
  <2>6. CASE SaveFails(t)
    <3> DEFINE d == Head(k.upd).dir
               e == [k EXCEPT !.legs = <<>>, !.ok = FALSE]
               u == <<Upd(d, "failed", None)>>
               k2 == [e EXCEPT !.upd = <<>>, !.next = "idle", !.pc = "done"]
    <3>1. /\ k.upd \in Seq(Update) /\ k.upd # <<>>
          /\ Become(t, Updating(e, u, "done")) \/ Become(t, k2)
      BY <1>0, <2>1, <2>6 DEF SaveFails, ThreadRec, k
    <3>2. e \in ThreadRec /\ e.src = k.src /\ e.job = k.job
      <4>1. <<>> \in Seq(Way)
        OBVIOUS
      <4> QED
        BY <1>0, <4>1 DEF ThreadRec
    <3>3. u \in Seq(Update) /\ u # <<>> /\ "done" \in AfterUpdate
      <4>1. Head(k.upd) \in Update
        BY <3>1
      <4>2. Upd(d, "failed", None) \in Update
        BY <4>1, UpdType, NoneType DEF Update
      <4> QED
        BY <4>2 DEF AfterUpdate
    <3> HIDE DEF e, u
    <3>4. /\ Updating(e, u, "done") \in ThreadRec /\ GoodThread(Updating(e, u, "done"))
          /\ SameSync(k, Updating(e, u, "done"))
      BY <2>1, <3>2, <3>3, UpdatingType DEF SameSync
    <3>5. k2 \in ThreadRec /\ k2.pc = "done" /\ k2.src = k.src /\ k2.job = k.job
      <4>1. <<>> \in Seq(Update) /\ "idle" \in PC /\ "done" \in PC
        BY DEF PC
      <4> QED
        BY <3>2, <4>1 DEF ThreadRec
    <3> HIDE DEF k2
    <3>6. GoodThread(k2) /\ SameSync(k, k2)
      BY <2>1, <3>5 DEF GoodThread, SameSync, Atwork, InUpdate, InLeg
    <3> QED
      BY <2>1, <3>1, <3>4, <3>5, <3>6 DEF k
  <2> QED
    BY <1>2, <2>3, <2>4, <2>5, <2>6 DEF WorkStep, CheckConflict, Clear, Fill, _compute_revision, Fail,
       ResolveGit, Chdir, Commit, GitPush, RevParse, GitFails, Restore, InUpdate, k
<1> QED
  BY <1>1, <1>2 DEF WorkStep, CheckConflict, _load_sync_state, Truncate, _save_sync_state, SaveFails, Clear, Fill,
     _compute_revision, Fail, ResolveGit, Chdir, Commit, GitPush, RevParse, GitFails, Restore,
     InUpdate, InLeg, k

LEMMA WorkStepData ==
    ASSUME SyncAssumption, TypeInv, NEW t \in Thread, WorkStep(t)
    PROVE  DataOK' /\ job' = job
<1> DEFINE k == thread[t]
<1>0. /\ k \in ThreadRec /\ DataOK
      /\ k.pc \in InLeg => k.src \in Source
  BY DEF TypeInv, TypeOK, DataOK, GoodThread, InLeg
<1>t. TypeOK
  BY DEF TypeInv
<1> HIDE DEF k
<1>1. CASE CheckConflict(t)
  <2>1. k.pc \in InLeg /\ (resolve_path(k.src, FALSE) \/ UNCHANGED clone)
        /\ UNCHANGED <<store, ext, state, job, cwd, syncs, edits, restarts, edited, overlapped, refreshed, unsaved>>
    BY <1>1 DEF CheckConflict, InLeg, k
  <2>2. clone' \in [Source -> [origin : Content, head : Content, work : Content, behind : BOOLEAN]]
    BY <1>0, <1>t, <2>1, ResolveType DEF DataOK
  <2> QED
    BY <1>0, <2>1, <2>2 DEF DataOK
<1>2. CASE _load_sync_state(t) \/ Fail(t) \/ _compute_revision(t) \/ GitFails(t) \/ RevParse(t)
  <2>1. UNCHANGED <<store, ext, clone, state, job, cwd, syncs, edits, restarts, edited, overlapped, refreshed, unsaved>>
    BY <1>2 DEF _load_sync_state, Fail, _compute_revision, GitFails, RevParse
  <2> QED
    BY <1>0, <2>1 DEF DataOK
<1>3. CASE Truncate(t) \/ _save_sync_state(t)
  <2>1. /\ state' = NoState \/ state' = k.buf
        /\ UNCHANGED <<store, ext, clone, job, cwd, syncs, edits, restarts, edited, overlapped, refreshed, unsaved>>
    BY <1>3 DEF Truncate, _save_sync_state, k
  <2>2. k.buf \in State
    BY <1>0 DEF ThreadRec
  <2>3. state' \in State
    BY <2>1, <2>2, NoStateType
  <2> QED
    BY <1>0, <2>1, <2>3 DEF DataOK
<1>10. CASE SaveFails(t)
  <2>1. /\ state' \in {state, NoState} /\ unsaved' = TRUE
        /\ UNCHANGED <<store, ext, clone, job, cwd, syncs, edits, restarts, edited, overlapped, refreshed>>
    BY <1>10 DEF SaveFails
  <2>2. state' \in State
    BY <1>0, <2>1, NoStateType DEF DataOK
  <2> QED
    BY <1>0, <2>1, <2>2 DEF DataOK
<1>4. CASE Clear(t)
  <2>1. /\ k.pc \in InLeg /\ WriteTarget(k, Torn)
        /\ edited' = [edited EXCEPT ![k.src] = edited[k.src] \ {Target(k)}]
        /\ refreshed' = refreshed \ {t}
        /\ UNCHANGED <<state, job, cwd, syncs, edits, restarts, overlapped, unsaved>>
    BY <1>4 DEF Clear, InLeg, k
  <2>2. Torn \in Content
    BY DEF Content
  <2>3. /\ store' \in [Source -> Content]
        /\ ext' \in [Source -> [mode : Modes, tree : Content]]
        /\ clone' \in [Source -> [origin : Content, head : Content, work : Content, behind : BOOLEAN]]
    BY <1>0, <1>t, <2>1, <2>2, WriteTargetType
  <2>4. edited' \in [Source -> SUBSET {"store", "ext"}]
    BY <1>0, <2>1 DEF DataOK
  <2> QED
    BY <1>0, <2>1, <2>3, <2>4 DEF DataOK
<1>5. CASE Fill(t)
  <2>1. /\ k.pc \in InLeg /\ WriteTarget(k, From(k))
        /\ edited' = [edited EXCEPT ![k.src] = {}]
        /\ UNCHANGED <<state, job, cwd, syncs, edits, restarts, overlapped, refreshed, unsaved>>
    BY <1>5 DEF Fill, InLeg, k
  <2>2. From(k) \in Content
    BY <1>0, <2>1 DEF From, DataOK
  <2>3. /\ store' \in [Source -> Content]
        /\ ext' \in [Source -> [mode : Modes, tree : Content]]
        /\ clone' \in [Source -> [origin : Content, head : Content, work : Content, behind : BOOLEAN]]
    BY <1>0, <1>t, <2>1, <2>2, WriteTargetType
  <2>4. edited' \in [Source -> SUBSET {"store", "ext"}]
    BY <1>0, <2>1 DEF DataOK
  <2> QED
    BY <1>0, <2>1, <2>3, <2>4 DEF DataOK
<1>6. CASE ResolveGit(t) \/ Chdir(t)
  <2>1. /\ k.pc \in InLeg
        /\ \/ \E force \in BOOLEAN : resolve_path(k.src, force)
           \/ UNCHANGED clone
        /\ cwd' \in {cwd, k.src}
        /\ UNCHANGED <<store, ext, state, job, syncs, edits, restarts, edited, overlapped, refreshed, unsaved>>
    BY <1>6 DEF ResolveGit, Chdir, InLeg, k
  <2>2. clone' \in [Source -> [origin : Content, head : Content, work : Content, behind : BOOLEAN]]
    BY <1>0, <1>t, <2>1, ResolveType DEF DataOK
  <2> QED
    BY <1>0, <2>1, <2>2 DEF DataOK
<1>7. CASE Commit(t)
  <2>1. /\ cwd # Home
        /\ clone' = [clone EXCEPT ![cwd].head = clone[cwd].work]
        /\ UNCHANGED <<store, ext, state, job, cwd, syncs, edits, restarts, edited, overlapped, refreshed, unsaved>>
    BY <1>7 DEF Commit
  <2>2. cwd \in Source /\ clone[cwd].work \in Content
    BY <1>0, <2>1 DEF DataOK
  <2>3. clone' \in [Source -> [origin : Content, head : Content, work : Content, behind : BOOLEAN]]
    BY <1>0, <2>1, <2>2, CloneType DEF DataOK
  <2> QED
    BY <1>0, <2>1, <2>3 DEF DataOK
<1>8. CASE GitPush(t)
  <2>1. /\ cwd # Home
        /\ ext' = [ext EXCEPT ![cwd].tree = clone[cwd].head]
        /\ clone' = [clone EXCEPT ![cwd].origin = clone[cwd].head]
        /\ UNCHANGED <<store, state, job, cwd, syncs, edits, restarts, edited, overlapped, refreshed, unsaved>>
    BY <1>8 DEF GitPush
  <2>2. cwd \in Source /\ clone[cwd].head \in Content
    BY <1>0, <2>1 DEF DataOK
  <2>3. /\ clone' \in [Source -> [origin : Content, head : Content, work : Content, behind : BOOLEAN]]
        /\ ext' \in [Source -> [mode : Modes, tree : Content]]
    BY <1>0, <2>1, <2>2, CloneType, TreeType DEF DataOK
  <2> QED
    BY <1>0, <2>1, <2>3 DEF DataOK
<1>9. CASE Restore(t)
  <2>1. cwd' = k.orig /\ refreshed' = refreshed \ {t}
        /\ UNCHANGED <<store, ext, clone, state, job, syncs, edits, restarts, edited, overlapped, unsaved>>
    BY <1>9 DEF Restore, k
  <2>2. k.orig \in Source \cup {Home}
    BY <1>0 DEF ThreadRec
  <2> QED
    BY <1>0, <2>1, <2>2 DEF DataOK
<1> QED
  BY <1>1, <1>2, <1>3, <1>4, <1>5, <1>6, <1>7, <1>8, <1>9, <1>10 DEF WorkStep

-----------------------------------------------------------------------------
(* The other steps.                                                        *)

JobOK == job \in [Source -> {"none", "running", "ended"}]

LEMMA TypeParts == TypeOK <=> DataOK /\ JobOK /\ thread \in [Thread -> ThreadRec]
  BY DEF TypeOK, DataOK, JobOK

\* A thread replaced by a good one.
LEMMA ReplacedThread ==
    ASSUME TypeInv, NEW t \in Thread, NEW k \in ThreadRec, GoodThread(k), Become(t, k), DataOK', JobOK'
    PROVE  TypeInv'
<1>1. thread \in [Thread -> ThreadRec] /\ thread' = [thread EXCEPT ![t] = k]
  BY DEF TypeInv, TypeOK, Become
<1>2. thread' \in [Thread -> ThreadRec]
  BY <1>1
<1>3. \A u \in Thread : GoodThread(thread'[u])
  BY <1>1 DEF TypeInv
<1>4. TypeOK'
  BY <1>2, TypeParts DEF TypeOK, DataOK, JobOK
<1> QED
  BY <1>3, <1>4 DEF TypeInv, GoodThread

\* A new thread has its source and its kind, and is at work.
LEMMA SpawnThread ==
    ASSUME SyncAssumption, TypeInv, NEW t \in Thread, NEW s \in Source, NEW isJob \in BOOLEAN,
           NEW d \in {"push", "pull", "both"}, Spawn(t, s, isJob, d)
    PROVE  /\ DataOK' /\ thread[t] = NoThread
           /\ \E k \in ThreadRec : /\ Become(t, k) /\ GoodThread(k)
                                  /\ Atwork(k) /\ k.src = s /\ k.job = isJob
<1> DEFINE new == [NoThread EXCEPT !.src = s, !.job = isJob, !.legs = Legs(d)]
           checking == [new EXCEPT !.pc = "check"]
<1>1. Legs(d) \in Seq(Way) /\ Legs(d) # <<>>
  <2>1. "push" \in Way /\ "pull" \in Way
    BY DEF Way
  <2>2. <<"pull", "push">> \in Seq(Way) /\ <<"push">> \in Seq(Way) /\ <<"pull">> \in Seq(Way)
    BY <2>1
  <2>3. Legs(d) = <<"pull", "push">> \/ Legs(d) = <<"push">> \/ Legs(d) = <<"pull">>
    BY DEF Legs
  <2>4. <<"pull", "push">> # <<>> /\ <<"push">> # <<>> /\ <<"pull">> # <<>>
    OBVIOUS
  <2> QED
    BY <2>2, <2>3, <2>4, Zenon
<1>2. new \in ThreadRec /\ new.src = s /\ new.job = isJob /\ new.legs = Legs(d)
  <2> HIDE DEF Legs
  <2> QED
    BY <1>1, NoThreadType DEF ThreadRec
<1>3. /\ syncs < MaxSyncs /\ syncs' = syncs + 1 /\ thread[t] = NoThread
      /\ Become(t, IF d = "both" THEN checking ELSE _execute_sync_direction(new, <<>>))
      /\ overlapped' = (overlapped \/ \E u \in Thread : Syncing(u))
      /\ UNCHANGED <<store, ext, clone, state, cwd, edits, restarts, edited, refreshed, unsaved>>
  BY DEF Spawn
<1> HIDE DEF new
<1>4. checking \in ThreadRec /\ checking.pc = "check" /\ checking.src = s /\ checking.job = isJob
      /\ checking.legs = Legs(d)
  BY <1>2 DEF ThreadRec, PC
<1> HIDE DEF checking
<1>5. GoodThread(checking) /\ Atwork(checking)
  BY <1>1, <1>4 DEF GoodThread, InUpdate, InLeg, Atwork
<1>6. /\ _execute_sync_direction(new, <<>>) \in ThreadRec
      /\ GoodThread(_execute_sync_direction(new, <<>>))
      /\ SameSync(new, _execute_sync_direction(new, <<>>))
  <2>1. <<>> \in Seq(Update)
    OBVIOUS
  <2> QED
    BY <1>1, <1>2, <2>1, DirectionType
<1>7. DataOK'
  <2>1. DataOK /\ MaxSyncs \in Nat
    BY TypeParts DEF TypeInv, SyncAssumption
  <2>2. syncs' \in 0 .. MaxSyncs
    BY <1>3, <2>1 DEF DataOK
  <2>3. overlapped' \in BOOLEAN
    BY <1>3, <2>1 DEF DataOK
  <2> QED
    BY <1>3, <2>1, <2>2, <2>3 DEF DataOK
<1>8. CASE d = "both"
  BY <1>3, <1>4, <1>5, <1>7, <1>8
<1>9. CASE d # "both"
  <2>1. Become(t, _execute_sync_direction(new, <<>>))
    BY <1>3, <1>9
  <2>2. /\ _execute_sync_direction(new, <<>>).src = s
        /\ _execute_sync_direction(new, <<>>).job = isJob
        /\ Atwork(_execute_sync_direction(new, <<>>))
    BY <1>2, <1>6 DEF SameSync
  <2> QED
    BY <1>3, <1>6, <1>7, <2>1, <2>2
<1> QED
  BY <1>8, <1>9

LEMMA InitType == ASSUME SyncAssumption, Init PROVE TypeInv
<1>1. 0 \in Content /\ 1 \in Content
  BY DEF Content, SyncAssumption
<1>2. PICK mode \in [Source -> Modes] : ext = [s \in Source |-> [mode |-> mode[s], tree |-> 1]]
  BY DEF Init
<1>3. ext \in [Source -> [mode : Modes, tree : Content]]
  BY <1>1, <1>2
<1>4. clone \in [Source -> [origin : Content, head : Content, work : Content, behind : BOOLEAN]]
  BY <1>1 DEF Init
<1>5. DataOK
  <2>1. store \in [Source -> Content] /\ edited \in [Source -> SUBSET {"store", "ext"}]
    BY <1>1 DEF Init
  <2>2. syncs \in 0 .. MaxSyncs /\ edits \in 0 .. MaxEdits /\ restarts \in 0 .. MaxRestarts
    BY DEF Init, SyncAssumption
  <2>3. state \in State /\ cwd \in Source \cup {Home} /\ overlapped \in BOOLEAN
        /\ refreshed \subseteq Thread /\ unsaved \in BOOLEAN
    BY NoStateType DEF Init
  <2> QED
    BY <1>3, <1>4, <2>1, <2>2, <2>3 DEF DataOK
<1>6. JobOK
  BY DEF Init, JobOK
<1>7. thread \in [Thread -> ThreadRec] /\ \A t \in Thread : GoodThread(thread[t])
  BY NoThreadType DEF Init
<1> QED
  BY <1>5, <1>6, <1>7, TypeParts DEF TypeInv

LEMMA EditData ==
    ASSUME SyncAssumption, TypeInv, NEW s \in Source, EditStorage(s) \/ EditExternal(s)
    PROVE  DataOK' /\ UNCHANGED <<job, thread>>
<1>0. DataOK /\ MaxEdits \in Nat
  BY TypeParts DEF TypeInv, SyncAssumption
<1>1. edits < MaxEdits /\ edits' = edits + 1 /\ UNCHANGED <<state, job, thread, cwd, syncs, restarts, overlapped, refreshed, unsaved>>
  BY DEF EditStorage, EditExternal
<1>2. edits' \in 0 .. MaxEdits /\ edits + 2 \in Content
  BY <1>0, <1>1 DEF DataOK, Content
<1>3. edited' \in [Source -> SUBSET {"store", "ext"}]
  <2>1. PICK side \in {"store", "ext"} : edited' = [edited EXCEPT ![s] = Edited(s, side)]
    BY DEF EditStorage, EditExternal
  <2>2. Edited(s, side) \in SUBSET {"store", "ext"}
    BY <1>0 DEF Edited, DataOK
  <2> QED
    BY <1>0, <2>1, <2>2 DEF DataOK
<1>4. CASE EditStorage(s)
  <2>1. store' = [store EXCEPT ![s] = edits + 2] /\ UNCHANGED <<ext, clone>>
    BY <1>4 DEF EditStorage
  <2>2. store' \in [Source -> Content]
    BY <1>0, <1>2, <2>1 DEF DataOK
  <2> QED
    BY <1>0, <1>1, <1>2, <1>3, <2>1, <2>2 DEF DataOK
<1>5. CASE EditExternal(s)
  <2>1. /\ ext' = [ext EXCEPT ![s].tree = edits + 2]
        /\ clone' = [clone EXCEPT ![s].behind = Mode(s) = "git"]
        /\ store' = store
    BY <1>5 DEF EditExternal
  <2>2. ext' \in [Source -> [mode : Modes, tree : Content]]
    BY <1>0, <1>2, <2>1, TreeType DEF DataOK
  <2>3. clone' \in [Source -> [origin : Content, head : Content, work : Content, behind : BOOLEAN]]
    <3>1. (Mode(s) = "git") \in BOOLEAN
      OBVIOUS
    <3>2. [clone EXCEPT ![s].behind = Mode(s) = "git"] \in
              [Source -> [origin : Content, head : Content, work : Content, behind : BOOLEAN]]
      BY <1>0, <1>2, <3>1, CloneType DEF DataOK
    <3> QED
      BY <2>1, <3>2
  <2> QED
    BY <1>0, <1>1, <1>2, <1>3, <2>1, <2>2, <2>3 DEF DataOK
<1> QED
  BY <1>4, <1>5

LEMMA RefreshData ==
    ASSUME SyncAssumption, TypeInv, NEW s \in Source, Refresh(s)
    PROVE  DataOK' /\ UNCHANGED <<job, thread>>
<1>1. /\ resolve_path(s, TRUE) /\ \E ts \in SUBSET Thread : refreshed' = refreshed \cup ts
      /\ UNCHANGED <<store, ext, state, job, thread, cwd, syncs, edits, restarts, edited, overlapped, unsaved>>
  BY DEF Refresh
<1>2. clone' \in [Source -> [origin : Content, head : Content, work : Content, behind : BOOLEAN]]
  <2>1. TRUE \in BOOLEAN /\ TypeOK
    BY DEF TypeInv
  <2> QED
    BY <1>1, <2>1, ResolveType
<1>3. DataOK
  BY TypeParts DEF TypeInv
<1> QED
  BY <1>1, <1>2, <1>3 DEF DataOK

LEMMA RestartData ==
    ASSUME SyncAssumption, TypeInv, Restart
    PROVE  TypeInv'
<1>0. DataOK /\ MaxRestarts \in Nat
  BY TypeParts DEF TypeInv, SyncAssumption
<1>1. /\ restarts < MaxRestarts /\ restarts' = restarts + 1
      /\ thread' = [t \in Thread |-> NoThread] /\ job' = [s \in Source |-> "none"] /\ cwd' = Home
      /\ refreshed' = {} /\ UNCHANGED <<store, ext, clone, state, syncs, edits, edited, overlapped, unsaved>>
  BY DEF Restart
<1>2. restarts' \in 0 .. MaxRestarts
  BY <1>0, <1>1 DEF DataOK
<1>3. DataOK' /\ JobOK'
  BY <1>0, <1>1, <1>2 DEF DataOK, JobOK
<1>4. thread' \in [Thread -> ThreadRec] /\ \A t \in Thread : GoodThread(thread'[t])
  BY <1>1, NoThreadType
<1>5. TypeOK'
  BY <1>3, <1>4 DEF TypeOK, DataOK, JobOK
<1> QED
  BY <1>4, <1>5 DEF TypeInv, GoodThread

LEMMA EndOfSync ==
    ASSUME SyncAssumption, TypeInv, NEW t \in Thread, _sync_worker(t) \/ cleanup_job(t)
    PROVE  /\ DataOK' /\ JobOK'
           /\ \E k \in ThreadRec : Become(t, k) /\ GoodThread(k) /\ ~Atwork(k)
<1> DEFINE k == thread[t]
<1>0. k \in ThreadRec /\ GoodThread(k) /\ DataOK /\ JobOK
  BY TypeParts DEF TypeInv
<1> HIDE DEF k
<1>1. /\ k.pc \in {"done", "cleanup"}
      /\ UNCHANGED <<store, ext, clone, state, cwd, syncs, edits, restarts, edited, overlapped, refreshed, unsaved>>
  BY DEF _sync_worker, cleanup_job, k
<1>3. k.src \in Source
  BY <1>0, <1>1 DEF GoodThread
<1>2. DataOK'
  BY <1>0, <1>1 DEF DataOK
<1>4. JobOK'
  <2>1. \/ job' = job
        \/ job' = [job EXCEPT ![k.src] = IF job[k.src] = "none" THEN job[k.src] ELSE "ended"]
        \/ job' = [job EXCEPT ![k.src] = IF job[k.src] = "running" THEN job[k.src] ELSE "none"]
    BY DEF _sync_worker, cleanup_job, k
  <2> QED
    BY <1>0, <1>3, <2>1 DEF JobOK
<1>5. \E k2 \in ThreadRec : Become(t, k2) /\ GoodThread(k2) /\ ~Atwork(k2)
  <2> DEFINE c == [NoThread EXCEPT !.pc = "cleanup", !.src = k.src]
  <2>1. Become(t, c) \/ Become(t, NoThread)
    BY DEF _sync_worker, cleanup_job, k
  <2>2. c \in ThreadRec /\ c.pc = "cleanup" /\ c.src = k.src
    BY <1>3, NoThreadType DEF ThreadRec, PC
  <2> HIDE DEF c
  <2>3. GoodThread(c) /\ ~Atwork(c)
    BY <1>3, <2>2 DEF GoodThread, InUpdate, InLeg, Atwork
  <2> QED
    BY <2>1, <2>2, <2>3, NoThreadType
<1> QED
  BY <1>2, <1>4, <1>5

LEMMA TypeStep == ASSUME SyncAssumption, TypeInv, [Next]_vars PROVE TypeInv'
<1>1. ASSUME NEW t \in Thread, NEW s \in Source, start_sync(t, s) \/ api_sync_project_source(t, s)
      PROVE  TypeInv'
  <2>1. PICK isJob \in BOOLEAN, d \in {"push", "pull", "both"} : Spawn(t, s, isJob, d)
    BY <1>1 DEF start_sync, api_sync_project_source, SyncAssumption
  <2>2. JobOK'
    BY <1>1 DEF start_sync, api_sync_project_source, TypeInv, TypeOK, JobOK
  <2>3. /\ DataOK'
        /\ \E k \in ThreadRec : Become(t, k) /\ GoodThread(k)
    BY <2>1, SpawnThread
  <2> QED
    BY <2>2, <2>3, ReplacedThread
<1>2. ASSUME NEW t \in Thread, WorkStep(t)
      PROVE  TypeInv'
  <2>1. DataOK' /\ job' = job
    BY <1>2, WorkStepData
  <2>2. JobOK'
    BY <2>1 DEF TypeInv, TypeOK, JobOK
  <2>3. \E k \in ThreadRec : Become(t, k) /\ GoodThread(k)
    BY <1>2, WorkStepThread
  <2> QED
    BY <2>1, <2>2, <2>3, ReplacedThread
<1>3. ASSUME NEW t \in Thread, _sync_worker(t) \/ cleanup_job(t)
      PROVE  TypeInv'
  BY <1>3, EndOfSync, ReplacedThread
<1>4. ASSUME NEW s \in Source, EditStorage(s) \/ EditExternal(s) \/ Refresh(s)
      PROVE  TypeInv'
  <2>1. DataOK' /\ UNCHANGED <<job, thread>>
    BY <1>4, EditData, RefreshData
  <2>2. TypeOK'
    BY <2>1 DEF TypeInv, TypeOK, DataOK
  <2> QED
    BY <2>1, <2>2 DEF TypeInv, GoodThread
<1>5. CASE Restart
  BY <1>5, RestartData
<1>6. CASE UNCHANGED vars
  BY <1>6 DEF vars, TypeInv, TypeOK, GoodThread
<1> QED
  BY <1>1, <1>2, <1>3, <1>4, <1>5, <1>6 DEF Next, SyncStep, WorkStep

\* Every variable keeps its type: in particular, a thread that is to write an
\* update has one left, and a thread within a direction has a direction left.
THEOREM TypeCorrect == Spec => []TypeOK
<1>1. Init => TypeInv
  BY SyncAssumption, InitType
<1>2. TypeInv /\ [Next]_vars => TypeInv'
  BY SyncAssumption, TypeStep
<1>3. TypeInv => TypeOK
  BY DEF TypeInv
<1> QED
  BY <1>1, <1>2, <1>3, PTL DEF Spec

-----------------------------------------------------------------------------
(* One thread per job.                                                     *)

JobInv == TypeInv /\ OneSyncThread

LEMMA SyncsJobIs ==
    \A t \in Thread, s \in Source :
        SyncsJob(t, s) <=> Atwork(thread[t]) /\ thread[t].job /\ thread[t].src = s
  BY DEF SyncsJob, Syncing, Atwork

LEMMA SyncsJobIsNext ==
    \A t \in Thread, s \in Source :
        SyncsJob(t, s)' <=> Atwork(thread'[t]) /\ thread'[t].job /\ thread'[t].src = s
  BY DEF SyncsJob, Syncing, Atwork

LEMMA JobStep == ASSUME SyncAssumption, JobInv, [Next]_vars PROVE OneSyncThread'
<1>0. /\ TypeInv /\ OneSyncThread /\ thread \in [Thread -> ThreadRec] /\ JobOK
  BY DEF JobInv, TypeInv, TypeOK, JobOK
\* Nothing changes for a source if its job and all that execute it stay.
<1>1. ASSUME NEW s \in Source, job'[s] = job[s], \A u \in Thread : SyncsJob(u, s)' <=> SyncsJob(u, s)
      PROVE  /\ \A u, v \in Thread : SyncsJob(u, s)' /\ SyncsJob(v, s)' => u = v
             /\ job'[s] = "running" <=> \E u \in Thread : SyncsJob(u, s)'
  BY <1>0, <1>1 DEF OneSyncThread
<1>2. ASSUME NEW t \in Thread, NEW s \in Source, start_sync(t, s)
      PROVE  OneSyncThread'
  <2>1. PICK d \in {"push", "pull", "both"} : Spawn(t, s, TRUE, d)
    BY <1>2 DEF start_sync, SyncAssumption
  <2>2. PICK k \in ThreadRec : thread' = [thread EXCEPT ![t] = k] /\ Atwork(k) /\ k.src = s /\ k.job = TRUE
    <3>1. PICK isJob \in BOOLEAN : isJob = TRUE
      OBVIOUS
    <3>2. Spawn(t, s, isJob, d)
      BY <2>1, <3>1
    <3>3. PICK k \in ThreadRec : Become(t, k) /\ Atwork(k) /\ k.src = s /\ k.job = isJob
      BY <1>0, <3>2, SpawnThread
    <3> QED
      BY <3>1, <3>3 DEF Become
  <2>3. thread[t] = NoThread
    BY <1>0, <2>1, SpawnThread
  <2>4. job[s] # "running" /\ job' = [job EXCEPT ![s] = "running"]
    BY <1>2 DEF start_sync
  <2>5. \A u \in Thread : ~SyncsJob(u, s)
    BY <1>0, <2>4 DEF OneSyncThread
  <2>6. \A u \in Thread : SyncsJob(u, s)' <=> u = t
    BY <1>0, <2>2, <2>5, SyncsJobIs, SyncsJobIsNext
  <2>7. ASSUME NEW r \in Source, r # s
        PROVE  job'[r] = job[r] /\ \A u \in Thread : SyncsJob(u, r)' <=> SyncsJob(u, r)
    BY <1>0, <2>2, <2>3, <2>4, <2>7, NoThreadType, SyncsJobIs, SyncsJobIsNext DEF JobOK
  <2>8. job'[s] = "running"
    BY <1>0, <2>4 DEF JobOK
  <2> QED
    BY <1>1, <2>6, <2>7, <2>8 DEF OneSyncThread
<1>3. ASSUME NEW t \in Thread, NEW s \in Source, api_sync_project_source(t, s)
      PROVE  OneSyncThread'
  <2>1. Spawn(t, s, FALSE, "pull") /\ job' = job
    BY <1>3 DEF api_sync_project_source
  <2>2. PICK k \in ThreadRec : thread' = [thread EXCEPT ![t] = k] /\ ~k.job
    BY <1>0, <2>1, SpawnThread DEF Become
  <2>3. thread[t] = NoThread
    BY <1>0, <2>1, SpawnThread
  <2>4. \A r \in Source, u \in Thread : SyncsJob(u, r)' <=> SyncsJob(u, r)
    BY <1>0, <2>2, <2>3, NoThreadType, SyncsJobIs, SyncsJobIsNext
  <2> QED
    BY <1>1, <2>1, <2>4 DEF OneSyncThread
<1>4. ASSUME NEW t \in Thread, WorkStep(t)
      PROVE  OneSyncThread'
  <2>1. PICK k \in ThreadRec : thread' = [thread EXCEPT ![t] = k] /\ Atwork(thread[t]) /\ SameSync(thread[t], k)
    BY <1>0, <1>4, WorkStepThread DEF Become
  <2>2. job' = job
    BY <1>0, <1>4, WorkStepData
  <2>3. \A r \in Source, u \in Thread : SyncsJob(u, r)' <=> SyncsJob(u, r)
    BY <1>0, <2>1, SyncsJobIs, SyncsJobIsNext DEF SameSync
  <2> QED
    BY <1>1, <2>2, <2>3 DEF OneSyncThread
<1>5. ASSUME NEW t \in Thread, _sync_worker(t)
      PROVE  OneSyncThread'
  <2>1. PICK s \in Source : thread[t].pc = "done" /\ thread[t].src = s
    BY <1>0, <1>5 DEF _sync_worker, TypeInv, GoodThread
  <2>2. PICK k \in ThreadRec : thread' = [thread EXCEPT ![t] = k] /\ ~Atwork(k)
    BY <1>0, <1>5, EndOfSync DEF Become
  <2>3. CASE thread[t].job
    <3>1. SyncsJob(t, s)
      BY <2>1, <2>3, SyncsJobIs DEF Atwork
    <3>2. job' = [job EXCEPT ![s] = IF job[s] = "none" THEN job[s] ELSE "ended"]
      BY <1>5, <2>1, <2>3 DEF _sync_worker
    <3>3. \A u \in Thread : ~SyncsJob(u, s)'
      <4>1. \A u \in Thread : SyncsJob(u, s) => u = t
        BY <1>0, <2>1, <3>1 DEF OneSyncThread
      <4> QED
        BY <1>0, <2>1, <2>2, <4>1, SyncsJobIs, SyncsJobIsNext
    <3>4. job'[s] # "running"
      BY <1>0, <2>1, <3>2 DEF JobOK
    <3>5. ASSUME NEW r \in Source, r # s
          PROVE  job'[r] = job[r] /\ \A u \in Thread : SyncsJob(u, r)' <=> SyncsJob(u, r)
      <4>1. job'[r] = job[r]
        BY <1>0, <3>2, <3>5 DEF JobOK
      <4>2. ~SyncsJob(t, r)
        BY <3>1, <3>5, SyncsJobIs, <2>1
      <4> QED
        BY <1>0, <2>2, <4>1, <4>2, SyncsJobIs, SyncsJobIsNext
    <3> QED
      BY <1>1, <3>3, <3>4, <3>5 DEF OneSyncThread
  <2>4. CASE ~thread[t].job
    <3>1. job' = job
      BY <1>5, <2>4 DEF _sync_worker
    <3>2. \A r \in Source, u \in Thread : SyncsJob(u, r)' <=> SyncsJob(u, r)
      BY <1>0, <2>2, <2>4, SyncsJobIs, SyncsJobIsNext
    <3> QED
      BY <1>1, <3>1, <3>2 DEF OneSyncThread
  <2> QED
    BY <2>3, <2>4
<1>6. ASSUME NEW t \in Thread, cleanup_job(t)
      PROVE  OneSyncThread'
  <2>1. PICK s \in Source : thread[t].pc = "cleanup" /\ thread[t].src = s
    BY <1>0, <1>6 DEF cleanup_job, TypeInv, GoodThread
  <2>2. PICK k \in ThreadRec : thread' = [thread EXCEPT ![t] = k] /\ ~Atwork(k)
    BY <1>0, <1>6, EndOfSync DEF Become
  <2>3. \A r \in Source, u \in Thread : SyncsJob(u, r)' <=> SyncsJob(u, r)
    BY <1>0, <2>1, <2>2, SyncsJobIs, SyncsJobIsNext DEF Atwork
  <2>4. job' = [job EXCEPT ![s] = IF job[s] = "running" THEN job[s] ELSE "none"]
    BY <1>6, <2>1 DEF cleanup_job
  <2>5. \A r \in Source : job'[r] = "running" <=> job[r] = "running"
    BY <1>0, <2>1, <2>4 DEF JobOK
  <2> QED
    BY <1>0, <2>3, <2>5 DEF OneSyncThread
<1>7. ASSUME NEW s \in Source, EditStorage(s) \/ EditExternal(s) \/ Refresh(s)
      PROVE  OneSyncThread'
  <2>1. UNCHANGED <<job, thread>>
    BY <1>0, <1>7, EditData, RefreshData
  <2>2. \A r \in Source, u \in Thread : SyncsJob(u, r)' <=> SyncsJob(u, r)
    BY <2>1, SyncsJobIs, SyncsJobIsNext
  <2> QED
    BY <1>1, <2>1, <2>2 DEF OneSyncThread
<1>8. CASE Restart
  <2>1. thread' = [t \in Thread |-> NoThread] /\ job' = [s \in Source |-> "none"]
    BY <1>8 DEF Restart
  <2>2. \A r \in Source, u \in Thread : ~SyncsJob(u, r)'
    BY <2>1, NoThreadType, SyncsJobIsNext
  <2> QED
    BY <2>1, <2>2 DEF OneSyncThread
<1>9. CASE UNCHANGED vars
  <2>1. UNCHANGED <<job, thread>>
    BY <1>9 DEF vars
  <2>2. \A r \in Source, u \in Thread : SyncsJob(u, r)' <=> SyncsJob(u, r)
    BY <2>1, SyncsJobIs, SyncsJobIsNext
  <2> QED
    BY <1>1, <2>1, <2>2 DEF OneSyncThread
<1> QED
  BY <1>2, <1>3, <1>4, <1>5, <1>6, <1>7, <1>8, <1>9 DEF Next, SyncStep, WorkStep

\* A source whose job runs has exactly one thread that executes it, for any
\* number of sources, threads and restarts: the late clean-up of an earlier job
\* and the end of an earlier thread do not let a second one start.
THEOREM OneThreadPerJob == Spec => []OneSyncThread
<1>1. Init => JobInv
  <2>1. ASSUME Init PROVE OneSyncThread
    <3>1. thread = [t \in Thread |-> NoThread] /\ job = [s \in Source |-> "none"]
      BY <2>1 DEF Init
    <3>2. \A r \in Source, u \in Thread : ~SyncsJob(u, r)
      BY <3>1, NoThreadType, SyncsJobIs
    <3> QED
      BY <3>1, <3>2 DEF OneSyncThread
  <2> QED
    BY <2>1, SyncAssumption, InitType DEF JobInv
<1>2. JobInv /\ [Next]_vars => JobInv'
  BY SyncAssumption, TypeStep, JobStep DEF JobInv
<1>3. JobInv => OneSyncThread
  BY DEF JobInv
<1> QED
  BY <1>1, <1>2, <1>3, PTL DEF Spec

=============================================================================
