---------------------------- MODULE SourceSync ----------------------------
(***************************************************************************)
(* Synchronization of the sources of a project.  A source has a copy in    *)
(* Project Storage and an external one, a directory (mode local) or a      *)
(* branch of a git repository (mode git), which is reached through a clone *)
(* in the cache of the server.  A sync copies one way or, in direction     *)
(* both, first from outside into the storage and then back.                *)
(*                                                                         *)
(* start_sync admits one job per source and runs it in a thread; the old   *)
(* route POST sources/sync runs a sync in its own request, without a job.  *)
(* All of them write the one .sync_state.json of the project, by reading   *)
(* it, changing the entry of their source and writing the whole back, and  *)
(* run git in the working directory of the server process, which they      *)
(* change and restore.                                                     *)
(*                                                                         *)
(* Contents are version numbers of what a copy replaces, the entities: an  *)
(* edit makes a new one, a copy keeps it (copy2 keeps times, so revisions  *)
(* agree as well), and Torn is what an unfinished copy leaves.             *)
(***************************************************************************)
EXTENDS Integers, FiniteSets, Sequences

CONSTANTS Source,
          Modes,         \* the modes a source may have: "local", "git"
          Directions,    \* Directions[s]: the directions s is synchronized in
          Direct,        \* sources somebody uses the old route for
          Thread,        \* bound: threads at a time
          MaxSyncs,      \* bound: syncs
          MaxEdits,      \* bound: edits by users and by others
          MaxGitEdits,   \* bound: edits by then when a git source is edited
          MaxRestarts    \* bound: restarts of the server

CONSTANTS Torn, None, Home

ASSUME SyncAssumption ==
    /\ Modes \subseteq {"local", "git"}
    /\ Directions \in [Source -> SUBSET {"push", "pull", "both"}]
    /\ Direct \subseteq Source
    /\ MaxSyncs \in Nat /\ MaxEdits \in Nat /\ MaxGitEdits \in Nat /\ MaxRestarts \in Nat
    /\ Torn \notin Nat /\ None \notin Nat /\ None \notin Source /\ Home \notin Source

VARIABLES
    store,       \* store[s]: Project Storage
    ext,         \* ext[s]: its mode, and a directory or the last commit of a branch
    clone,       \* clone[s]: the clone of a git source: what it knows of the branch,
                 \* its last commit, its work tree, and if it is behind the branch
    state,       \* .sync_state.json
    job,         \* job[s]: what _active_jobs has of s
    thread,      \* thread[t]: a sync, and afterwards its cleanup thread
    cwd,         \* the working directory of the server process
    syncs, edits, restarts,
    edited,      \* history: the sides of a local s with an edit no sync has copied
                 \* or overwritten since
    overlapped,  \* history: two syncs have been at work at the same time
    refreshed,   \* history: pushing threads whose clone somebody refreshed since they
                 \* began to copy to it
    unsaved      \* history: the state file could not be written

vars == <<store, ext, clone, state, job, thread, cwd, syncs, edits, restarts, edited,
          overlapped, refreshed, unsaved>>

-----------------------------------------------------------------------------
(* Types.                                                                  *)

Content == 0 .. MaxEdits + 1 \cup {Torn}

Way == {"push", "pull"}
Entry == [status : {"idle", "running", "ok", "failed"}, rev : Content \cup {None}]
NoEntry == [status |-> "idle", rev |-> None]
State == [Source -> [Way -> Entry]]
NoState == [s \in Source |-> [d \in Way |-> NoEntry]]

Update == [dir : Way, status : {"running", "ok", "failed"}, rev : Content \cup {None}]
Upd(dir, status, rev) == [dir |-> dir, status |-> status, rev |-> rev]

\* Where a thread is, the directions it has left, the updates of the state file
\* it is about to make and where it goes on then, and what it remembers.
PC == {"idle", "check", "load", "truncate", "save", "resolve", "clear", "fill", "hash",
       "chdir", "commit", "push", "head", "restore", "done", "cleanup"}
NoThread == [pc |-> "idle", src |-> None, job |-> FALSE, legs |-> <<>>, upd |-> <<>>, next |-> "idle",
             buf |-> NoState, orig |-> Home, copied |-> None, rev |-> None, ok |-> TRUE]

ThreadRec == [pc : PC, src : Source \cup {None}, job : BOOLEAN, legs : Seq(Way),
              upd : Seq(Update), next : PC, buf : State, orig : Source \cup {Home},
              copied : Content \cup {None}, rev : Content \cup {None}, ok : BOOLEAN]

TypeOK ==
    /\ store \in [Source -> Content]
    /\ ext \in [Source -> [mode : Modes, tree : Content]]
    /\ clone \in [Source -> [origin : Content, head : Content, work : Content, behind : BOOLEAN]]
    /\ state \in State
    /\ job \in [Source -> {"none", "running", "ended"}]
    /\ thread \in [Thread -> ThreadRec]
    /\ cwd \in Source \cup {Home}
    /\ syncs \in 0 .. MaxSyncs /\ edits \in 0 .. MaxEdits /\ restarts \in 0 .. MaxRestarts
    /\ edited \in [Source -> SUBSET {"store", "ext"}]
    /\ overlapped \in BOOLEAN /\ refreshed \subseteq Thread /\ unsaved \in BOOLEAN

Init ==
    /\ store = [s \in Source |-> 0]
    /\ \E mode \in [Source -> Modes] :
           ext = [s \in Source |-> [mode |-> mode[s], tree |-> 1]]
    /\ clone = [s \in Source |-> [origin |-> 1, head |-> 1, work |-> 1, behind |-> FALSE]]
    /\ state = NoState
    /\ job = [s \in Source |-> "none"]
    /\ thread = [t \in Thread |-> NoThread]
    /\ cwd = Home
    /\ syncs = 0 /\ edits = 0 /\ restarts = 0
    /\ edited = [s \in Source |-> {}]
    /\ overlapped = FALSE /\ refreshed = {} /\ unsaved = FALSE

-----------------------------------------------------------------------------
(* Threads.                                                                *)

Become(t, rec) == thread' = [thread EXCEPT ![t] = rec]

Syncing(t) == thread[t].pc \notin {"idle", "cleanup"}
SyncsJob(t, s) == Syncing(t) /\ thread[t].job /\ thread[t].src = s

\* Makes the updates one after the other and goes on at next.
Updating(rec, updates, next) == [rec EXCEPT !.pc = "load", !.upd = updates, !.next = next]

Mode(s) == ext[s].mode

\* A direction begins with the status running.
_execute_sync_direction(rec, updates) ==
    Updating(rec, Append(updates, Upd(Head(rec.legs), "running", None)),
             IF Mode(rec.src) = "git" THEN "resolve" ELSE "clear")

\* It ends with the next one, with success, or with an error.
LegEnds(rec) == [rec EXCEPT !.legs = Tail(@), !.copied = None, !.rev = None, !.orig = Home]

LegOk(rec, rev) ==
    LET ended == <<Upd(Head(rec.legs), "ok", rev)>>
    IN  IF Len(rec.legs) = 1
        THEN Updating(LegEnds(rec), ended, "done")
        ELSE _execute_sync_direction(LegEnds(rec), ended)

\* Mutant: a failed direction is only logged.
LegFails_Silent(rec) == [LegEnds(rec) EXCEPT !.legs = <<>>, !.ok = FALSE, !.pc = "done"]

LegFails(rec) ==
    Updating([LegEnds(rec) EXCEPT !.legs = <<>>, !.ok = FALSE],
             <<Upd(Head(rec.legs), "failed", None)>>, "done")

\* Mutant: both is not divided.
Legs_Undivided(direction) == <<direction>>

Legs(direction) == IF direction = "both" THEN <<"pull", "push">> ELSE <<direction>>

\* The new thread takes the first free place.
Spawn(t, s, isJob, direction) ==
    LET new == [NoThread EXCEPT !.src = s, !.job = isJob, !.legs = Legs(direction)]
    IN  /\ syncs < MaxSyncs
        /\ syncs' = syncs + 1
        /\ thread[t] = NoThread
        /\ t = CHOOSE u \in Thread : thread[u] = NoThread
        /\ Become(t, IF direction = "both" THEN [new EXCEPT !.pc = "check"]
                     ELSE _execute_sync_direction(new, <<>>))
        /\ overlapped' = (overlapped \/ \E u \in Thread : Syncing(u))
        /\ UNCHANGED <<store, ext, clone, state, cwd, edits, restarts, edited, refreshed, unsaved>>

start_sync(t, s) ==
    /\ job[s] # "running"
    /\ job' = [job EXCEPT ![s] = "running"]
    /\ \E d \in Directions[s] : Spawn(t, s, TRUE, d)

\* The old route calls execute_sync in the request itself.
api_sync_project_source(t, s) ==
    /\ s \in Direct /\ Mode(s) = "git"
    /\ Spawn(t, s, FALSE, "pull")
    /\ UNCHANGED job

-----------------------------------------------------------------------------
(* _update_sync_state: load, change one entry, open for writing, write.    *)

Apply(buf, s, u) ==
    [buf EXCEPT ![s][u.dir] = [status |-> u.status, rev |-> IF u.rev = None THEN @.rev ELSE u.rev]]

_load_sync_state(t) ==
    LET k == thread[t]
    IN  /\ k.pc = "load"
        /\ Become(t, [k EXCEPT !.pc = "truncate", !.upd = Tail(@), !.buf = Apply(state, k.src, Head(k.upd))])
        /\ UNCHANGED <<store, ext, clone, state, job, cwd, syncs, edits, restarts, edited, overlapped, refreshed, unsaved>>

\* Who reads the file now finds no JSON in it and goes on with {}.
Truncate(t) ==
    /\ thread[t].pc = "truncate"
    /\ state' = NoState
    /\ Become(t, [thread[t] EXCEPT !.pc = "save"])
    /\ UNCHANGED <<store, ext, clone, job, cwd, syncs, edits, restarts, edited, overlapped, refreshed, unsaved>>

_save_sync_state(t) ==
    LET k == thread[t]
    IN  /\ k.pc = "save"
        /\ state' = k.buf
        /\ Become(t, [k EXCEPT !.buf = NoState, !.pc = IF k.upd = <<>> THEN k.next ELSE "load",
                               !.next = IF k.upd = <<>> THEN "idle" ELSE @])
        /\ UNCHANGED <<store, ext, clone, job, cwd, syncs, edits, restarts, edited, overlapped, refreshed, unsaved>>

\* The file cannot be opened, and stays, or cannot be written, and has no JSON in it
\* then.  An "ok" becomes a failure of its direction, a "failed" may be tried once
\* more; otherwise the exception ends the sync.
SaveFails(t) ==
    LET k == thread[t]
        u == Head(k.upd)
        failed == [k EXCEPT !.legs = <<>>, !.ok = FALSE]
    IN  /\ k.pc = "load"
        /\ state' \in {state, NoState}
        /\ \/ u.status # "running" /\ Become(t, Updating(failed, <<Upd(u.dir, "failed", None)>>, "done"))
           \/ u.status # "ok" /\ Become(t, [failed EXCEPT !.upd = <<>>, !.next = "idle", !.pc = "done"])
        /\ unsaved' = TRUE
        /\ UNCHANGED <<store, ext, clone, job, cwd, syncs, edits, restarts, edited, overlapped, refreshed>>

-----------------------------------------------------------------------------
(* execute_sync.                                                           *)

\* _clone_or_fetch fetches if it is told to, or if the last fetch is more than a
\* minute old.  A fetch that fails is not an error: the reset goes to what origin
\* was before.  Without a fetch the work tree stays as it is.
_clone_or_fetch(s, origin, behind) ==
    clone' = [clone EXCEPT ![s] = [origin |-> origin, head |-> origin, work |-> origin, behind |-> behind]]

resolve_path(s, force_refresh) ==
    \/ _clone_or_fetch(s, ext[s].tree, FALSE)
    \/ _clone_or_fetch(s, clone[s].origin, clone[s].behind)
    \/ ~force_refresh /\ UNCHANGED clone

\* A side counts as changed if it differs from the revision on record, and not
\* if there is none.
Recorded(s, d) == state[s][d].rev # None

\* Mutant: each side is compared with the revision of the other direction.
_detect_conflict_Swapped(s) ==
    /\ Recorded(s, "pull") /\ store[s] # state[s]["pull"].rev
    /\ Recorded(s, "push") /\ ext[s].tree # state[s]["push"].rev

_detect_conflict(s) ==
    /\ Recorded(s, "push") /\ store[s] # state[s]["push"].rev
    /\ Recorded(s, "pull") /\ ext[s].tree # state[s]["pull"].rev

\* In mode git the external path is resolved['rootPath'] of a Path: the
\* exception is swallowed and the test skipped.
CheckConflict(t) ==
    LET k == thread[t]
    IN  /\ k.pc = "check"
        /\ IF Mode(k.src) = "local" /\ _detect_conflict(k.src)
           THEN Become(t, Updating([k EXCEPT !.legs = <<>>, !.ok = FALSE],
                                   <<Upd("push", "failed", None), Upd("pull", "failed", None)>>, "done"))
           ELSE Become(t, _execute_sync_direction(k, <<>>))
        /\ IF Mode(k.src) = "git" THEN resolve_path(k.src, FALSE) ELSE UNCHANGED clone
        /\ UNCHANGED <<store, ext, state, job, cwd, syncs, edits, restarts, edited, overlapped, refreshed, unsaved>>

\* Any step of a leg before the revision is known may raise: the path is not
\* there, the disk is full, the secret is missing, git times out, a file to hash
\* has gone.
Fail(t) ==
    LET k == thread[t]
    IN  /\ k.pc \in {"resolve", "clear", "fill", "hash", "chdir"}
        /\ Become(t, LegFails(k))
        /\ UNCHANGED <<store, ext, clone, state, job, cwd, syncs, edits, restarts, edited, overlapped, refreshed, unsaved>>

-----------------------------------------------------------------------------
(* The copy: the target is emptied first.                                  *)

Push(k) == Head(k.legs) = "push"

\* What the leg copies from.
From(k) == IF Push(k) THEN store[k.src]
           ELSE IF Mode(k.src) = "git" THEN clone[k.src].work ELSE ext[k.src].tree

WriteTarget(k, c) ==
    IF ~Push(k) THEN store' = [store EXCEPT ![k.src] = c] /\ UNCHANGED <<ext, clone>>
    ELSE IF Mode(k.src) = "git"
    THEN clone' = [clone EXCEPT ![k.src].work = c] /\ UNCHANGED <<store, ext>>
    ELSE ext' = [ext EXCEPT ![k.src].tree = c] /\ UNCHANGED <<store, clone>>

\* The side a leg copies to.
Target(k) == IF Push(k) THEN "ext" ELSE "store"

Clear(t) ==
    LET k == thread[t]
    IN  /\ k.pc = "clear"
        /\ WriteTarget(k, Torn)
        /\ edited' = [edited EXCEPT ![k.src] = @ \ {Target(k)}]
        /\ Become(t, [k EXCEPT !.pc = "fill"])
        /\ refreshed' = refreshed \ {t}
        /\ UNCHANGED <<state, job, cwd, syncs, edits, restarts, overlapped, unsaved>>

Fill(t) ==
    LET k == thread[t]
    IN  /\ k.pc = "fill"
        /\ WriteTarget(k, From(k))
        /\ edited' = [edited EXCEPT ![k.src] = {}]
        /\ Become(t, [k EXCEPT !.copied = IF Push(k) THEN From(k) ELSE None,
                               !.pc = IF Mode(k.src) = "git" THEN "chdir" ELSE "hash"])
        /\ UNCHANGED <<state, job, cwd, syncs, edits, restarts, overlapped, refreshed, unsaved>>

\* _compute_revision of the target, which a user may have edited since.
_compute_revision(t) ==
    LET k == thread[t]
    IN  /\ k.pc = "hash"
        /\ Become(t, LegOk(k, IF Push(k) THEN ext[k.src].tree ELSE store[k.src]))
        /\ UNCHANGED <<store, ext, clone, state, job, cwd, syncs, edits, restarts, edited, overlapped, refreshed, unsaved>>

-----------------------------------------------------------------------------
(* Git.                                                                    *)

ResolveGit(t) ==
    LET k == thread[t]
    IN  /\ k.pc = "resolve"
        /\ resolve_path(k.src, ~Push(k))
        /\ Become(t, [k EXCEPT !.pc = "clear"])
        /\ UNCHANGED <<store, ext, state, job, cwd, syncs, edits, restarts, edited, overlapped, refreshed, unsaved>>

\* A pull asks for the path once more, and may fetch again.
Chdir(t) ==
    LET k == thread[t]
    IN  /\ k.pc = "chdir"
        /\ cwd' = k.src
        /\ Become(t, [k EXCEPT !.orig = cwd, !.pc = IF Push(k) THEN "commit" ELSE "head"])
        /\ IF Push(k) THEN UNCHANGED clone ELSE resolve_path(k.src, FALSE)
        /\ UNCHANGED <<store, ext, state, job, syncs, edits, restarts, edited, overlapped, refreshed, unsaved>>

\* Any git command may fail, and outside a repository it does.
GitFails(t) ==
    LET k == thread[t]
    IN  /\ k.pc \in {"commit", "push", "head"}
        /\ Become(t, [k EXCEPT !.pc = "restore", !.ok = FALSE])
        /\ UNCHANGED <<store, ext, clone, state, job, cwd, syncs, edits, restarts, edited, overlapped, refreshed, unsaved>>

\* Mutant: no commit while an earlier one waits to be pushed.
Commit_OnceOnly(t) ==
    LET k == thread[t]
    IN  /\ k.pc = "commit"
        /\ cwd # Home
        /\ clone' = [clone EXCEPT ![cwd].head =
                         IF @ = clone[cwd].origin THEN clone[cwd].work ELSE @]
        /\ Become(t, [k EXCEPT !.pc = "push"])
        /\ UNCHANGED <<store, ext, state, job, cwd, syncs, edits, restarts, edited, overlapped, refreshed, unsaved>>

\* git add -A and, if the status shows a change, git commit.
Commit(t) ==
    LET k == thread[t]
    IN  /\ k.pc = "commit"
        /\ cwd # Home
        /\ clone' = [clone EXCEPT ![cwd].head = clone[cwd].work]
        /\ Become(t, [k EXCEPT !.pc = "push"])
        /\ UNCHANGED <<store, ext, state, job, cwd, syncs, edits, restarts, edited, overlapped, refreshed, unsaved>>

\* git push, which the remote accepts as a fast forward only.
GitPush(t) ==
    LET k == thread[t]
        head == clone[cwd].head
    IN  /\ k.pc = "push"
        /\ cwd # Home
        /\ ~clone[cwd].behind
        /\ ext' = [ext EXCEPT ![cwd].tree = head]
        /\ clone' = [clone EXCEPT ![cwd].origin = head]
        /\ Become(t, [k EXCEPT !.pc = "head"])
        /\ UNCHANGED <<store, state, job, cwd, syncs, edits, restarts, edited, overlapped, refreshed, unsaved>>

\* git rev-parse HEAD: the revision on record.
RevParse(t) ==
    LET k == thread[t]
    IN  /\ k.pc = "head"
        /\ cwd # Home
        /\ Become(t, [k EXCEPT !.pc = "restore", !.rev = clone[cwd].head])
        /\ UNCHANGED <<store, ext, clone, state, job, cwd, syncs, edits, restarts, edited, overlapped, refreshed, unsaved>>

\* The finally clause: os.chdir(original_cwd).
Restore(t) ==
    LET k == thread[t]
    IN  /\ k.pc = "restore"
        /\ cwd' = k.orig
        /\ Become(t, IF k.ok THEN LegOk(k, k.rev) ELSE LegFails(k))
        /\ refreshed' = refreshed \ {t}
        /\ UNCHANGED <<store, ext, clone, state, job, syncs, edits, restarts, edited, overlapped, unsaved>>

-----------------------------------------------------------------------------
(* The end of a sync.                                                      *)

\* _sync_worker marks whatever job is registered and leaves a cleanup thread.  The
\* old route has no job.
_sync_worker(t) ==
    LET k == thread[t]
    IN  /\ k.pc = "done"
        /\ IF k.job
           THEN /\ job' = [job EXCEPT ![k.src] = IF @ = "none" THEN @ ELSE "ended"]
                /\ Become(t, [NoThread EXCEPT !.pc = "cleanup", !.src = k.src])
           ELSE job' = job /\ Become(t, NoThread)
        /\ UNCHANGED <<store, ext, clone, state, cwd, syncs, edits, restarts, edited, overlapped, refreshed, unsaved>>

\* Mutant: the cleanup removes whatever job there is.
cleanup_job_Unchecked(t) ==
    LET s == thread[t].src
    IN  /\ thread[t].pc = "cleanup"
        /\ job' = [job EXCEPT ![s] = "none"]
        /\ Become(t, NoThread)
        /\ UNCHANGED <<store, ext, clone, state, cwd, syncs, edits, restarts, edited, overlapped, refreshed, unsaved>>

\* Five seconds later; by then the job may be another one.
cleanup_job(t) ==
    LET s == thread[t].src
    IN  /\ thread[t].pc = "cleanup"
        /\ job' = [job EXCEPT ![s] = IF @ = "running" THEN @ ELSE "none"]
        /\ Become(t, NoThread)
        /\ UNCHANGED <<store, ext, clone, state, cwd, syncs, edits, restarts, edited, overlapped, refreshed, unsaved>>

-----------------------------------------------------------------------------
(* Users, other clones of the repository, and restarts.                    *)

\* sources/test, sources/resolve and check-conflict ask for the path of a source
\* outside any sync, and reset the clone at whatever moment if they fetch.
Refresh(s) ==
    /\ Mode(s) = "git"
    /\ resolve_path(s, TRUE)
    /\ refreshed' = refreshed \cup
           {t \in Thread : /\ thread[t].src = s
                           /\ thread[t].pc \in {"fill", "chdir", "commit", "push"} /\ Push(thread[t])}
    /\ UNCHANGED <<store, ext, state, job, thread, cwd, syncs, edits, restarts, edited, overlapped, unsaved>>

Edited(s, side) == IF Mode(s) = "local" THEN edited[s] \cup {side} ELSE {}

EditStorage(s) ==
    /\ edits < MaxEdits /\ (Mode(s) = "git" => edits < MaxGitEdits)
    /\ edits' = edits + 1
    /\ store' = [store EXCEPT ![s] = edits + 2]
    /\ edited' = [edited EXCEPT ![s] = Edited(s, "store")]
    /\ UNCHANGED <<ext, clone, state, job, thread, cwd, syncs, restarts, overlapped, refreshed, unsaved>>

EditExternal(s) ==
    /\ edits < MaxEdits /\ (Mode(s) = "git" => edits < MaxGitEdits)
    /\ edits' = edits + 1
    /\ ext' = [ext EXCEPT ![s].tree = edits + 2]
    /\ clone' = [clone EXCEPT ![s].behind = Mode(s) = "git"]
    /\ edited' = [edited EXCEPT ![s] = Edited(s, "ext")]
    /\ UNCHANGED <<store, state, job, thread, cwd, syncs, restarts, overlapped, refreshed, unsaved>>

Restart ==
    /\ restarts < MaxRestarts
    /\ restarts' = restarts + 1
    /\ thread' = [t \in Thread |-> NoThread]
    /\ job' = [s \in Source |-> "none"]
    /\ cwd' = Home
    /\ refreshed' = {}
    /\ UNCHANGED <<store, ext, clone, state, syncs, edits, edited, overlapped, unsaved>>

-----------------------------------------------------------------------------

SyncStep(t) ==
    \/ CheckConflict(t)
    \/ _load_sync_state(t) \/ Truncate(t) \/ _save_sync_state(t) \/ SaveFails(t)
    \/ Clear(t) \/ Fill(t) \/ _compute_revision(t) \/ Fail(t)
    \/ ResolveGit(t) \/ Chdir(t) \/ Commit(t) \/ GitPush(t) \/ RevParse(t)
    \/ GitFails(t) \/ Restore(t)
    \/ _sync_worker(t) \/ cleanup_job(t)

Next ==
    \/ \E t \in Thread, s \in Source : start_sync(t, s) \/ api_sync_project_source(t, s)
    \/ \E t \in Thread : SyncStep(t)
    \/ \E s \in Source : EditStorage(s) \/ EditExternal(s) \/ Refresh(s)
    \/ Restart

Spec == Init /\ [][Next]_vars

-----------------------------------------------------------------------------
(* Properties.                                                             *)

\* A source whose job is running has exactly one thread that executes it, and a
\* thread at work has a running job: neither the clean-up of an earlier job, five
\* seconds late, nor the answer of an earlier thread lets a second one start
\* (source_sync_service.py 1886-1894 and 1949-1957).
OneSyncThread ==
    \A s \in Source :
        /\ \A t, u \in Thread : SyncsJob(t, s) /\ SyncsJob(u, s) => t = u
        /\ job[s] = "running" <=> \E t \in Thread : SyncsJob(t, s)

\* Once both revisions of a source of mode local are on record, a sync in both
\* directions goes ahead only if at most one side has an edit that no sync has copied
\* or overwritten since, in spite of edits between a copy and its revision, and of
\* syncs that failed, overlapped or lost records before ("Detect if both sides changed since last sync", source_sync_service.py 266).
ConflictSeen ==
    [][\A t \in Thread :
        LET s == thread[t].src
        IN  thread[t].pc = "check" /\ thread'[t].pc = "load" /\ thread'[t].ok /\ Mode(s) = "local"
            /\ Recorded(s, "push") /\ Recorded(s, "pull")
            => edited[s] # {"store", "ext"}]_vars

\* A push that succeeds has put the copy it took of Project Storage on the remote
\* branch, if no two syncs have overlapped and nobody has refreshed the clone since
\* the copy began: a clone that is stale or was refreshed before, a commit left by a failed
\* push and a restart do not get in its way (source_sync_service.py 893-1125).
PushDelivers ==
    [][\A t \in Thread :
        LET k == thread[t]
        IN  k.pc = "push" /\ thread'[t].pc = "head" /\ ~overlapped /\ t \notin refreshed
            => ext'[k.src].tree = k.copied]_vars

\* A source that is left with the status running, which every reader of the state
\* takes for a sync at work, got it from a restart, from two syncs at a time or from
\* a state file that could not be written; no other failed step of a sync leaves it
\* (source_sync_service.py 1583-1658).
SettledUnlessDisturbed ==
    (restarts = 0 /\ ~overlapped /\ ~unsaved /\ \A t \in Thread : ~Syncing(t)) =>
        \A s \in Source : "running" \notin {state[s]["push"].status, state[s]["pull"].status}

=============================================================================
