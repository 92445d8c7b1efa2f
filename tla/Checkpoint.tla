------------------------------ MODULE Checkpoint ------------------------------
(***************************************************************************)
(* One request of `h3 generate`, run by several processes: the checkpoint  *)
(* they share under an exclusive flock (CheckpointingPipeline.__call__ of  *)
(* checkpoint.py), the latent tail the request continues from and the one  *)
(* it leaves (cli.py, pipeline.py), the clip written after the lock is     *)
(* gone (run_generate), and `h3 watch`, which reads it all off the disk    *)
(* (runs.py).                                                              *)
(*                                                                         *)
(* Latents are the set of tails their steps were denoised under: a run     *)
(* computes the same rows from the same tail, and nothing else of its      *)
(* conditioning can change under one identity digest.  The temporary file  *)
(* of a write carries the pid and is read by nobody, so a death inside a   *)
(* write leaves the checkpoint as it was.                                  *)
(***************************************************************************)
EXTENDS Naturals

CONSTANTS
    Proc,        \* processes that may run the request
    NoProc,
    Steps,       \* forwards of the schedule (total_forwards)
    MaxTail      \* bound: versions of the tail the request continues from

ASSUME CheckpointAssumption ==
    /\ NoProc \notin Proc
    /\ Steps \in Nat \ {0}
    /\ MaxTail \in Nat \ {0}

VARIABLES
    tail,        \* version of the tail that lies where --latent points
    chained,     \* the request carries --latent at all
    ckpt,        \* the checkpoint's file
    lock,        \* who holds the flock on the companion file
    lockFile,    \* the companion file exists
    pc,          \* where each process is
    how,         \* the command it runs
    ctx,         \* the version of the tail it has read
    base,        \* the checkpoint it resumes from
    done,        \* the steps it has behind it
    under,       \* what its rows were computed under
    own,         \* the latent tail the request left: what it was computed under
    clip,        \* <stem>.mp4: what it was computed under
    torn,        \* history: a run ended, or the next took the lock, between its tail and its clip
    rotted,      \* history: the disk made a checkpoint unreadable
    watch,       \* h3 watch
    seen,        \* history: who has held the lock since the scan began
    moved        \* history: the scan's file was or became unreadable

dvars == <<tail, chained, ckpt, lock, lockFile>>
ovars == <<own, clip, torn, rotted>>
rvars == <<watch, seen, moved>>
gvars == <<pc, how, ctx, base, done, under>>
vars == <<dvars, gvars, ovars, rvars>>

Version == 1..MaxTail
File == [at: {"none", "ok", "bad"}, steps: 0..Steps, under: SUBSET Version, cond: 0..MaxTail]
NoFile == [at |-> "none", steps |-> 0, under |-> {}, cond |-> 0]

Hows == {"generate", "restart", "resume"}
Locked == {"open", "loop", "write", "tailed", "decoded", "discarded"}
After == {"save", "saving", "report"}
TypeOK ==
    /\ tail \in Version /\ chained \in BOOLEAN
    /\ ckpt \in File
    /\ lock \in Proc \cup {NoProc} /\ lockFile \in BOOLEAN
    /\ pc \in [Proc -> {"free", "load", "lock"} \cup Locked \cup After]
    /\ how \in [Proc -> Hows]
    /\ ctx \in [Proc -> 0..MaxTail]
    /\ base \in [Proc -> File]
    /\ done \in [Proc -> 0..Steps]
    /\ under \in [Proc -> SUBSET Version]
    /\ own \in SUBSET Version
    /\ clip \in [at: {"none", "partial", "ok"}, under: SUBSET Version]
    /\ torn \in BOOLEAN /\ rotted \in BOOLEAN
    /\ watch \in [at: {"off", "read", "probe", "locks", "told"},
                  listed: BOOLEAN, live: BOOLEAN]
    /\ seen \in Proc \cup {NoProc} /\ moved \in BOOLEAN

Init ==
    /\ tail = 1 /\ chained \in BOOLEAN
    /\ ckpt = NoFile
    /\ lock = NoProc /\ lockFile = FALSE
    /\ pc = [p \in Proc |-> "free"] /\ how = [p \in Proc |-> "generate"]
    /\ ctx = [p \in Proc |-> 0] /\ base = [p \in Proc |-> NoFile]
    /\ done = [p \in Proc |-> 0] /\ under = [p \in Proc |-> {}]
    /\ own = {} /\ clip = [at |-> "none", under |-> {}]
    /\ torn = FALSE /\ rotted = FALSE
    /\ watch = [at |-> "off", listed |-> FALSE, live |-> FALSE]
    /\ seen = NoProc /\ moved = FALSE

-----------------------------------------------------------------------------
(* A process.                                                              *)

Rest == <<how, ctx, base, done, under>>
Go(p, to) == pc' = [pc EXCEPT ![p] = to] /\ UNCHANGED Rest
End(p) ==
    /\ pc' = [pc EXCEPT ![p] = "free"] /\ how' = [how EXCEPT ![p] = "generate"]
    /\ ctx' = [ctx EXCEPT ![p] = 0] /\ base' = [base EXCEPT ![p] = NoFile]
    /\ done' = [done EXCEPT ![p] = 0] /\ under' = [under EXCEPT ![p] = {}]
DropLock(p) == lock' = NoProc /\ seen' = IF seen = p THEN NoProc ELSE seen
KeepDisk == UNCHANGED <<tail, chained, ckpt, lock, lockFile>>

\* `h3 resume` looks for the file of its identity, and computes that without
\* the anchors of the tail (_checkpoint_path_for): with --latent it finds none.
Begin(p) ==
    /\ pc[p] = "free"
    /\ \E h \in Hows :
          /\ h = "resume" => ~chained /\ ckpt.at # "none"
          /\ how' = [how EXCEPT ![p] = h]
    /\ pc' = [pc EXCEPT ![p] = "load"]
    /\ UNCHANGED <<ctx, base, done, under>>
    /\ KeepDisk /\ UNCHANGED <<ovars, rvars>>

\* load_latent_tail, before the pipeline is called.
LoadTail(p) ==
    /\ pc[p] = "load"
    /\ ctx' = [ctx EXCEPT ![p] = tail]
    /\ pc' = [pc EXCEPT ![p] = "lock"]
    /\ UNCHANGED <<how, base, done, under>>
    /\ KeepDisk /\ UNCHANGED <<ovars, rvars>>

Saving == \E q \in Proc : pc[q] \in {"save", "saving"}

\* acquire_lock: the companion file is made in any case, and the flock is not
\* waited for.
AcquireLock(p) ==
    /\ pc[p] = "lock"
    /\ lockFile' = TRUE
    /\ \/ lock = NoProc /\ lock' = p /\ Go(p, "open") /\ torn' = (torn \/ Saving)
       \/ lock # NoProc /\ End(p) /\ UNCHANGED <<lock, torn>>
    /\ UNCHANGED <<tail, chained, ckpt, own, clip, rotted, rvars>>

\* _load_for_resume with on_corrupt="restart": what cannot be read is moved
\* aside.  The file's name is the digest, so its identity cannot differ.
LoadForResume(p) ==
    /\ pc[p] = "open"
    /\ pc' = [pc EXCEPT ![p] = "loop"]
    /\ IF ckpt.at = "ok" /\ how[p] # "restart"
       THEN /\ base' = [base EXCEPT ![p] = ckpt]
            /\ done' = [done EXCEPT ![p] = ckpt.steps]
            /\ under' = [under EXCEPT ![p] = ckpt.under]
       ELSE UNCHANGED <<base, done, under>>
    /\ UNCHANGED <<how, ctx>>
    /\ IF ckpt.at = "bad" /\ how[p] # "restart"
       THEN ckpt' = NoFile /\ moved' = TRUE
       ELSE UNCHANGED <<ckpt, moved>>
    /\ UNCHANGED <<tail, chained, lock, lockFile, ovars, watch, seen>>

AtSeam(p) == base[p].at = "ok" /\ done[p] = base[p].steps
SameRows(p) == base[p].cond = ctx[p]

Compute(p) ==
    /\ pc' = [pc EXCEPT ![p] = "write"]
    /\ done' = [done EXCEPT ![p] = @ + 1]
    /\ under' = [under EXCEPT ![p] = @ \cup {ctx[p]}]
    /\ UNCHANGED <<how, ctx, base>>

\* Mutant: the rebuilt conditioning rows are not compared.
ForwardUnchecked(p) ==
    /\ pc[p] = "loop" /\ done[p] < Steps
    /\ Compute(p)
    /\ KeepDisk /\ UNCHANGED <<ovars, rvars>>

\* A forward, after _check_seam when it is the first one the checkpoint does
\* not cover; begin_forward reaches no seam behind the last step.
Forward(p) ==
    /\ pc[p] = "loop" /\ done[p] < Steps
    /\ AtSeam(p) => SameRows(p)
    /\ Compute(p)
    /\ KeepDisk /\ UNCHANGED <<ovars, rvars>>

\* CheckpointMismatch.
SeamRefuses(p) ==
    /\ pc[p] = "loop" /\ done[p] < Steps
    /\ AtSeam(p) /\ ~SameRows(p)
    /\ End(p) /\ DropLock(p)
    /\ UNCHANGED <<tail, chained, ckpt, lockFile, ovars, watch, moved>>

\* CheckpointStore.write: the temporary file is renamed over the checkpoint.
Replace(p) ==
    /\ pc[p] = "write"
    /\ ckpt' = [at |-> "ok", steps |-> done[p], under |-> under[p],
                cond |-> ctx[p]]
    /\ Go(p, "loop")
    /\ UNCHANGED <<tail, chained, lock, lockFile, ovars, rvars>>

\* Mutant: the checkpoint goes when the last step is done.
DiscardEarly(p) ==
    /\ pc[p] = "loop" /\ done[p] = Steps
    /\ own' = under[p]
    /\ ckpt' = NoFile /\ moved' = TRUE
    /\ Go(p, "tailed")
    /\ UNCHANGED <<tail, chained, lock, lockFile, clip, torn, rotted, watch, seen>>

\* _decode_video saves the request's own tail before it decodes.
SaveTail(p) ==
    /\ pc[p] = "loop" /\ done[p] = Steps
    /\ own' = under[p]
    /\ Go(p, "tailed")
    /\ KeepDisk /\ UNCHANGED <<clip, torn, rotted, rvars>>

\* _validate_decoded_frames.
Validate(p) ==
    /\ pc[p] = "tailed"
    /\ Go(p, "decoded")
    /\ KeepDisk /\ UNCHANGED <<ovars, rvars>>

\* Mutant: the tail of a condemned clip stays on the disk.
CondemnClipOnly(p) ==
    /\ pc[p] = "tailed"
    /\ End(p) /\ DropLock(p)
    /\ UNCHANGED <<tail, chained, ckpt, lockFile, ovars, watch, moved>>

\* A condemned clip takes its tail with it; the checkpoint stays.
Condemn(p) ==
    /\ pc[p] = "tailed"
    /\ own' = {}
    /\ End(p) /\ DropLock(p)
    /\ UNCHANGED <<tail, chained, ckpt, lockFile, clip, torn, rotted, watch, moved>>

Discard(p) ==
    /\ pc[p] = "decoded"
    /\ ckpt' = NoFile /\ moved' = TRUE
    /\ Go(p, "discarded")
    /\ UNCHANGED <<tail, chained, lock, lockFile, ovars, watch, seen>>

ReleaseLock(p) ==
    /\ pc[p] = "discarded"
    /\ Go(p, "save") /\ DropLock(p)
    /\ UNCHANGED <<tail, chained, ckpt, lockFile, ovars, watch, moved>>

\* save_mp4 writes to the clip's own path.
SaveBegins(p) ==
    /\ pc[p] = "save"
    /\ clip' = [at |-> "partial", under |-> {}]
    /\ Go(p, "saving")
    /\ KeepDisk /\ UNCHANGED <<own, torn, rotted, rvars>>

SaveEnds(p) ==
    /\ pc[p] = "saving"
    /\ clip' = [at |-> "ok", under |-> under[p]]
    /\ Go(p, "report")
    /\ KeepDisk /\ UNCHANGED <<own, torn, rotted, rvars>>

Report(p) ==
    /\ pc[p] = "report"
    /\ End(p)
    /\ KeepDisk /\ UNCHANGED <<ovars, rvars>>

\* An exception or a kill: Python's finally or the kernel drops the flock, and
\* nothing else is undone.
Die(p) ==
    /\ pc[p] # "free"
    /\ End(p)
    /\ IF lock = p THEN DropLock(p) ELSE UNCHANGED <<lock, seen>>
    /\ torn' = (torn \/ pc[p] \in {"tailed", "decoded", "discarded", "save", "saving"})
    /\ UNCHANGED <<tail, chained, ckpt, lockFile, own, clip, rotted, watch, moved>>

-----------------------------------------------------------------------------
(* The world.                                                              *)

\* The scene before is generated again under its own stem.
TailRegenerated ==
    /\ chained /\ tail < MaxTail
    /\ tail' = tail + 1
    /\ UNCHANGED <<chained, ckpt, lock, lockFile, gvars, ovars, rvars>>

Rot ==
    /\ ckpt.at = "ok"
    /\ ckpt' = [at |-> "bad", steps |-> 0, under |-> {}, cond |-> 0]
    /\ rotted' = TRUE /\ moved' = TRUE
    /\ UNCHANGED <<tail, chained, lock, lockFile, gvars, own, clip, torn, watch, seen>>

-----------------------------------------------------------------------------
(* h3 watch: runs.scan, again and again until no run is in flight.         *)

WatchSame == KeepDisk /\ UNCHANGED <<gvars, ovars>>

\* The first rglob.
List ==
    /\ watch.at \in {"off", "told"}
    /\ watch.at = "told" => watch.live
    /\ watch' = [at |-> IF ckpt.at # "none" THEN "read" ELSE "locks",
                 listed |-> ckpt.at # "none", live |-> FALSE]
    /\ seen' = lock /\ moved' = (ckpt.at = "bad")
    /\ WatchSame

\* read_checkpoint_meta: gone by now or unreadable, the run is "unreadable".
Read ==
    /\ watch.at = "read"
    /\ watch' = [watch EXCEPT !.at = IF ckpt.at = "ok" THEN "probe" ELSE "locks"]
    /\ WatchSame /\ UNCHANGED <<seen, moved>>

\* _writer_alive, and a run with a checkpoint is in flight or stale.
Probe ==
    /\ watch.at = "probe"
    /\ watch' = [at |-> "locks", listed |-> watch.listed, live |-> lock # NoProc]
    /\ WatchSame /\ UNCHANGED <<seen, moved>>

\* Mutant: a run is what has a checkpoint.
NoLocks ==
    /\ watch.at = "locks"
    /\ watch' = [watch EXCEPT !.at = "told"]
    /\ WatchSame /\ UNCHANGED <<seen, moved>>

\* The second pass finds the writers that have no checkpoint yet.
Locks ==
    /\ watch.at = "locks"
    /\ watch' = [at |-> "told", listed |-> watch.listed,
                 live |-> watch.live \/ (~watch.listed /\ lockFile /\ lock # NoProc)]
    /\ WatchSame /\ UNCHANGED <<seen, moved>>

\* run_watch returns.
Quit ==
    /\ watch.at = "told" /\ ~watch.live
    /\ watch' = [at |-> "off", listed |-> FALSE, live |-> FALSE]
    /\ seen' = NoProc /\ moved' = FALSE
    /\ WatchSame

-----------------------------------------------------------------------------
Pipeline(p) == \/ AcquireLock(p) \/ LoadForResume(p) \/ Forward(p) \/ SeamRefuses(p)
               \/ Replace(p) \/ SaveTail(p) \/ Validate(p) \/ Condemn(p) \/ Discard(p) \/ ReleaseLock(p)
RunGenerate(p) == LoadTail(p) \/ Pipeline(p) \/ SaveBegins(p) \/ SaveEnds(p) \/ Report(p)
Scan == List \/ Read \/ Probe \/ Locks \/ Quit

Next ==
    \/ \E p \in Proc : Begin(p) \/ RunGenerate(p) \/ Die(p)
    \/ TailRegenerated \/ Rot
    \/ Scan

Spec == Init /\ [][Next]_vars

-----------------------------------------------------------------------------
(* The properties.                                                         *)

Single(S) == \A u, v \in S : u = v

\* No checkpoint, no tail and no clip mixes steps that were denoised under two
\* versions of the tail the request continues from.
OneContext ==
    /\ ckpt.at = "ok" => ckpt.under = {ckpt.cond}
    /\ Single(own) /\ Single(clip.under)

\* A checkpoint is replaced by a later one, whatever runs at the same time,
\* unless the replacing run was told to restart.
NeverBackwards ==
    [][ckpt.at = "ok" /\ ckpt'.at = "ok" /\ ckpt'.steps < ckpt.steps
       => \E p \in Proc : pc[p] = "write" /\ how[p] = "restart"]_vars

\* Until a run has decoded its clip, every step it has finished is on the disk:
\* a death costs the step in hand.  (It costs everything between discard and
\* the end of save_mp4.)
WorkIsKept ==
    \A p \in Proc :
        ~rotted /\ pc[p] \in {"loop", "tailed", "decoded"} /\ done[p] > 0
        => ckpt.at = "ok" /\ ckpt.steps = done[p]

\* The tail that lies beside a finished clip is the clip's own, unless a run
\* ended between the two or the next one took the lock there: it is released
\* before the clip is written.
TailIsTheClips ==
    own # {} /\ clip.at = "ok" /\ ~torn
    /\ (\A p \in Proc : pc[p] \notin {"tailed", "decoded", "discarded"} \cup After)
    => own = clip.under

\* h3 watch does not leave a run that held its lock all through the scan,
\* unless the checkpoint it listed was unreadable or gone when it was read.
WatchHonest == watch.at = "told" /\ ~watch.live => seen = NoProc \/ moved
=============================================================================
