------------------------------- MODULE JobFiles -------------------------------
(***************************************************************************)
(* The files of the jobs people queue from the page: the directory each    *)
(* job is given (queue.py), the copy of its prompt, its clip and its       *)
(* checkpoint, under the requests that file, edit, duplicate, cancel and   *)
(* remove jobs (web.py) and under the worker that runs them.  A request    *)
(* reads outside the queue's lock and writes under it; a removal takes no  *)
(* lock at all.                                                            *)
(*                                                                         *)
(* A path is the sequence of its names, a name a minute and a word: the    *)
(* names the queue gives (YYYYMMDD-HHMM-slug) have a minute, other names   *)
(* have minute 0.  A tag is a word and the numbers of the copies it went   *)
(* through.  A text is a number, 0 for a prompt that is typed in the form  *)
(* and is in no file.                                                      *)
(***************************************************************************)
EXTENDS Naturals, Sequences, SequencesExt, FiniteSets

CONSTANTS
    Requests,    \* the server's threads
    Words,       \* tags people give
    SlugOf,      \* what is left of each in the name of a directory
    Outdirs,     \* what the server's --outdir may be
    MaxJobs,     \* bound: jobs ever filed
    MaxCalls,    \* bound: requests handled and deaths of the panel
    MaxMinutes,  \* bound on the clock
    MaxTries     \* bound: names tried for a copy, DUPLICATE_ATTEMPTS in the code

\* The name of a directory: its minute, and its word with the numbers of the copies.
Names == Nat \X Seq(STRING \cup Nat)

ASSUME FilesAssumption ==
    /\ Words \subseteq STRING /\ \A w \in Words : SlugOf[w] \in STRING
    /\ Outdirs \subseteq Seq(Names) \ {<<>>}

VARIABLES
    outdir,      \* the server's --outdir
    minute,
    source,      \* the text of prompts/<name>.txt in the repository
    jobs,        \* per job: where its file is and what it says
    prompts,     \* per job: queue/prompts/<id>.txt, 0 for no file
    clips,       \* the clips on disk: directory, tag, and the job that made it
    tails,       \* the checkpoints on disk: directory and what identifies the run
    op,          \* where each request is, and what it carries
    calls

fileVars == <<outdir, minute, source, jobs, prompts, clips, tails, op, calls>>
book == <<jobs, prompts>>
disk == <<clips, tails>>
rest == <<outdir, minute, source>>

NoText == 0
NoJob == 0
Idle == [pc |-> "idle", job |-> NoJob, stem |-> [dir |-> <<>>, tag |-> <<>>],
         reads |-> NoJob, text |-> NoText, try |-> 0, checked |-> <<>>]

FilesInit ==
    /\ outdir \in Outdirs /\ minute = 1 /\ source = 1
    /\ jobs = <<>> /\ prompts = <<>>
    /\ clips = {} /\ tails = {}
    /\ op = [r \in Requests |-> Idle]
    /\ calls = 0

-----------------------------------------------------------------------------
(* Where a job's files go.                                                 *)

Known == {n \in DOMAIN jobs : jobs[n].st # "gone"}
In(states) == {n \in DOMAIN jobs : jobs[n].st \in states}

Shaped(d) == Last(d)[1] # 0
Slug(tag) == <<SlugOf[tag[1]]>> \o Tail(tag)
Inside(d) == IsPrefix(outdir, d)

\* _outdir_is_a_known_job_subdir
KnownDir(d) == \E n \in Known : jobs[n].stem.dir = d

\* Mutant: the directory of the job a copy is made of is kept.
KeepOutdir(d) == d
BaseOutdir(d) == IF Shaped(d) /\ KnownDir(d) THEN Front(d) ELSE d

\* The name of the output stays, its directory is the job's own.
Relocate(stem) ==
    [stem EXCEPT !.dir = Append(BaseOutdir(@), <<minute, Slug(stem.tag)>>)]

\* Every job but the one that is edited.
StemTaken(stem, but) ==
    \/ \E c \in clips : c.dir = stem.dir /\ c.tag = stem.tag
    \/ \E n \in In({"pending", "running"}) \ {but} : jobs[n].stem = stem

\* Jobs whose files the directory has or is about to lose.
Mates(d) ==
    {n \in Known : jobs[n].stem.dir = d}
        \cup {op[r].job : r \in {q \in Requests : op[q].pc = "tree" /\ op[q].stem.dir = d}}
\* It is, or will be, somebody's directory by its name and not by its record.
Orphan(d) == Shaped(d) /\ d # outdir /\ ~KnownDir(d)
\* No name between the server's directory and its own last one is a job's.
Apart(d) == \A i \in (Len(outdir) + 1)..(Len(d) - 1) : d[i][1] = 0

-----------------------------------------------------------------------------
(* The requests.                                                           *)

BeginRequest(r) == op[r].pc = "idle" /\ calls < MaxCalls /\ calls' = calls + 1
Leave(r) == op' = [op EXCEPT ![r] = Idle]

\* What the form may name: the server's own directory, one above it, those of
\* jobs it has seen.
Named == {outdir, Front(outdir)} \cup {jobs[n].stem.dir : n \in DOMAIN jobs}
Tags == {<<w>> : w \in Words}

\* The output that the dry run reports.
DryRun(d, tag) == [dir |-> d, tag |-> tag]

\* prepare_submission: what is refused changes nothing; the text is read from
\* the file, outside the lock.
Prepare(r, does, n, d, tag) ==
    /\ BeginRequest(r)
    /\ Inside(d)
    /\ \E text \in {NoText, source} :
         op' = [op EXCEPT ![r] = [Idle EXCEPT !.pc = does, !.job = n,
                                              !.stem = DryRun(d, tag), !.text = text]]
    /\ UNCHANGED <<rest, book, disk>>

PrepareSubmit(r) ==
    \E d \in Named, tag \in Tags : Prepare(r, "submit", NoJob, d, tag)
PrepareEdit(r) ==
    \E n \in DOMAIN jobs : \E d \in Named, tag \in Tags \cup {jobs[n].stem.tag} :
        Prepare(r, "update", n, d, tag)

\* The scan of the duplicate: the job as it is now.
DuplicateScan(r, n) ==
    /\ BeginRequest(r)
    /\ jobs[n].st \in {"pending", "done", "failed"}
    /\ op' = [op EXCEPT ![r] = [Idle EXCEPT !.pc = "copy", !.job = n, !.try = 1,
                                            !.stem = jobs[n].stem, !.reads = jobs[n].reads]]
    /\ UNCHANGED <<rest, book, disk>>

\* Its prompt, from the copy that is there now.
DuplicateRead(r) ==
    LET n == op[r].reads
    IN  /\ op[r].pc = "copy"
        /\ IF n # NoJob /\ prompts[n] = NoText THEN Leave(r)
           ELSE op' = [op EXCEPT ![r].pc = "duplicate",
                                 ![r].text = IF n = NoJob THEN NoText ELSE prompts[n]]
        /\ UNCHANGED <<rest, book, disk, calls>>

Candidate(r) ==
    IF op[r].pc \in {"submit", "file"} THEN op[r].stem
    ELSE [op[r].stem EXCEPT !.tag = Append(@, op[r].try)]

\* _refuse_if_relocation_escapes_the_roots: where the job would go now, looked up
\* before the queue's lock is taken.
CheckRoots(r) ==
    LET there == Relocate(Candidate(r)).dir
    IN  /\ op[r].pc \in {"submit", "duplicate"}
        /\ IF ~Inside(there) THEN Leave(r)
           ELSE op' = [op EXCEPT ![r].checked = there,
                                 ![r].pc = IF @ = "submit" THEN "file" ELSE "file_copy"]
        /\ UNCHANGED <<rest, book, disk, calls>>

\* The directory is shared from now on.
Meet(js, d) == [n \in DOMAIN js |-> IF n \in Mates(d) THEN [js[n] EXCEPT !.alone = FALSE]
                                    ELSE js[n]]

\* The place the job is given is not one that was checked, but for the minute: it
\* hangs from another directory, or what passed was the server's own directory,
\* met by the name of that very minute.
Moved(r, d) == Front(d) # Front(op[r].checked) \/ op[r].checked = outdir

\* submit, under the lock: where the job goes, a new id, the copy of the prompt, the
\* file.
Submit(r) ==
    LET asked == Candidate(r)
        stem == Relocate(asked)
        id == Len(jobs) + 1
    IN  /\ op[r].pc \in {"file", "file_copy"} /\ Len(jobs) < MaxJobs
        /\ IF StemTaken(stem, NoJob)
           THEN /\ IF op[r].try \in {0, MaxTries} THEN Leave(r)
                   ELSE op' = [op EXCEPT ![r].pc = "duplicate", ![r].try = @ + 1]
                /\ UNCHANGED book
           ELSE /\ jobs' = Append(Meet(jobs, stem.dir),
                     [st |-> "pending", stem |-> stem, text |-> op[r].text,
                      reads |-> IF op[r].text = NoText THEN op[r].reads ELSE id,
                      left |-> FALSE, doomed |-> FALSE, torn |-> FALSE,
                      moved |-> Moved(r, stem.dir),
                      alone |-> Mates(stem.dir) = {} /\ Apart(asked.dir) /\ ~Orphan(asked.dir)])
                /\ prompts' = Append(prompts, op[r].text)
                /\ Leave(r)
        /\ UNCHANGED <<rest, disk, calls>>

Editable(r) ==
    /\ op[r].pc = "update"
    /\ jobs[op[r].job].st = "pending" /\ ~StemTaken(op[r].stem, op[r].job)

\* The prompt's copy and what the job says, in the directory that was named.
Edited(r) ==
    LET n == op[r].job
        d == op[r].stem.dir
        met == IF d = jobs[n].stem.dir THEN jobs ELSE Meet(jobs, d)
        on == op[r].text # NoText
    IN  [met EXCEPT ![n].stem = op[r].stem,
                    ![n].text = IF on THEN op[r].text ELSE @,
                    ![n].reads = IF on THEN n ELSE NoJob,
                    ![n].torn = @ /\ ~on, ![n].moved = FALSE,
                    ![n].alone = @ /\ (d = jobs[n].stem.dir
                                       \/ (Mates(d) = {} /\ Apart(d)))]
NewPrompt(r) ==
    IF op[r].text = NoText THEN prompts ELSE [prompts EXCEPT ![op[r].job] = op[r].text]

Update(r) ==
    /\ op[r].pc = "update"
    /\ IF Editable(r) THEN jobs' = Edited(r) /\ prompts' = NewPrompt(r)
       ELSE UNCHANGED book
    /\ Leave(r)
    /\ UNCHANGED <<rest, disk, calls>>

\* A waiting job is cancelled, a finished one in the server's directory removed; the
\* route looks once.
Route(r, n) ==
    /\ BeginRequest(r)
    /\ \/ jobs[n].st = "pending"
          /\ op' = [op EXCEPT ![r] = [Idle EXCEPT !.pc = "cancel", !.job = n]]
       \/ jobs[n].st \in {"done", "failed"} /\ Inside(jobs[n].stem.dir)
          /\ op' = [op EXCEPT ![r] = [Idle EXCEPT !.pc = "tree", !.job = n,
                                                  !.stem = jobs[n].stem]]
    /\ UNCHANGED <<rest, book, disk>>

Cancel(r) ==
    LET n == op[r].job
    IN  /\ op[r].pc = "cancel"
        /\ IF jobs[n].st # "pending" THEN UNCHANGED book
           ELSE jobs' = [jobs EXCEPT ![n].st = "gone"] /\ prompts' = [prompts EXCEPT ![n] = NoText]
        /\ Leave(r)
        /\ UNCHANGED <<rest, disk, calls>>

\* _is_relocated_job_subdir: by its name, unless it is the server's own.
OwnDir(d) == Shaped(d) /\ d # outdir

\* _delete_flat_artifacts: the files of its stem, and the checkpoint if there is
\* one in the directory and nobody writes it.
Live(t) == \E n \in In({"running"}) : jobs[n].stem.dir = t.dir /\ prompts[n] = t.run
FlatTails(d) ==
    LET there == {t \in tails : t.dir = d}
    IN  IF Cardinality(there) = 1 THEN {t \in there : ~Live(t)} ELSE {}

\* rmtree takes the directory with what others put in it.
RemoveTree(r) ==
    LET d == op[r].stem.dir
        tag == op[r].stem.tag
    IN  /\ op[r].pc = "tree"
        /\ IF OwnDir(d)
           THEN /\ clips' = {c \in clips : ~IsPrefix(d, c.dir)}
                /\ tails' = {t \in tails : ~IsPrefix(d, t.dir)}
           ELSE /\ clips' = {c \in clips : c.dir # d \/ c.tag # tag}
                /\ tails' = tails \ FlatTails(d)
        /\ jobs' = [jobs EXCEPT ![op[r].job].doomed = TRUE]
        /\ op' = [op EXCEPT ![r].pc = "record"]
        /\ UNCHANGED <<rest, prompts, calls>>

RemoveRecord(r) ==
    /\ op[r].pc = "record"
    /\ jobs' = [jobs EXCEPT ![op[r].job].st = "gone"]
    /\ prompts' = [prompts EXCEPT ![op[r].job] = NoText]
    /\ Leave(r)
    /\ UNCHANGED <<rest, disk, calls>>

SavePrompt ==
    /\ calls < MaxCalls /\ calls' = calls + 1
    /\ source' = source + 1
    /\ UNCHANGED <<outdir, minute, book, disk, op>>

-----------------------------------------------------------------------------
(* The worker, the clock and the death of the panel.                       *)

\* Any of those that wait: "to the front" puts any of them first.
Claim(n) ==
    /\ jobs[n].st = "pending" /\ In({"running"}) = {}
    /\ jobs' = [jobs EXCEPT ![n].st = "running"]
    /\ UNCHANGED <<rest, prompts, disk, op, calls>>

Saved(n) == [dir |-> jobs[n].stem.dir, run |-> prompts[n]]

\* The run writes its checkpoint.
Save(n) ==
    /\ jobs[n].st = "running" /\ Saved(n) \notin tails
    /\ tails' = tails \cup {Saved(n)}
    /\ UNCHANGED <<rest, book, clips, op, calls>>

Finish(n) ==
    LET stem == jobs[n].stem
    IN  /\ jobs[n].st = "running"
        /\ jobs' = [jobs EXCEPT ![n].st = "done"]
        /\ clips' = {c \in clips : c.dir # stem.dir \/ c.tag # stem.tag}
                      \cup {[dir |-> stem.dir, tag |-> stem.tag, by |-> n]}
        /\ tails' = tails \ {Saved(n)}
        /\ UNCHANGED <<rest, prompts, op, calls>>

\* Failed, or cut short by the death of the worker and returned.
FinishFailed(n) ==
    /\ jobs[n].st = "running"
    /\ \E st \in {"failed", "pending"} :
         jobs' = [jobs EXCEPT ![n].st = st, ![n].left = Saved(n) \in tails]
    /\ UNCHANGED <<rest, prompts, disk, op, calls>>

Tick ==
    /\ minute < MaxMinutes /\ minute' = minute + 1
    /\ UNCHANGED <<outdir, source, book, disk, op, calls>>

\* The panel dies in the middle of a request; an edit may have come as far as the
\* prompt.
Crash ==
    /\ calls < MaxCalls /\ calls' = calls + 1
    /\ \E r \in Requests : op[r].pc # "idle"
    /\ op' = [r \in Requests |-> Idle]
    /\ \/ UNCHANGED book
       \/ \E r \in Requests :
            /\ Editable(r) /\ op[r].text # NoText
            /\ prompts' = NewPrompt(r)
            /\ jobs' = [jobs EXCEPT ![op[r].job].torn = TRUE]
    /\ UNCHANGED <<rest, disk>>

Step(r) ==
    \/ PrepareSubmit(r) \/ PrepareEdit(r)
    \/ DuplicateRead(r) \/ CheckRoots(r) \/ Submit(r) \/ Update(r)
    \/ Cancel(r) \/ RemoveTree(r) \/ RemoveRecord(r)
    \/ \E n \in DOMAIN jobs : DuplicateScan(r, n) \/ Route(r, n)

Run(n) == Claim(n) \/ Save(n) \/ Finish(n) \/ FinishFailed(n)

FilesNext ==
    \/ \E r \in Requests : Step(r)
    \/ \E n \in DOMAIN jobs : Run(n)
    \/ SavePrompt \/ Tick \/ Crash

FilesSpec == FilesInit /\ [][FilesNext]_fileVars

-----------------------------------------------------------------------------
(* The properties.                                                         *)

\* The text its record was written with is what a job runs.
KeepsPrompt(j) ==
    j.st \in {"pending", "running"} /\ j.reads # NoJob /\ ~j.torn =>
        prompts[j.reads] = j.text
KeepsOutput(n, j) ==
    j.alone /\ ~j.doomed =>
        /\ j.st = "done" => [dir |-> j.stem.dir, tag |-> j.stem.tag, by |-> n] \in clips
        /\ j.st = "failed" /\ j.left => Saved(n) \in tails

\* Whatever is filed, copied, edited, cancelled and removed beside it, a job keeps
\* the prompt it was filed or last edited with, but for a death in the middle of its
\* edit; and until it is removed it keeps its clip when it is done, its checkpoint
\* when it failed, if no other job shared its directory and it was not filed below
\* what is, by its name, another job's.  Nothing is filed outside the server's
\* directory, whatever that one is called, but where a directory became a job's, or
\* ceased to be, between the check and the filing.
FilesStay ==
    \A n \in DOMAIN jobs :
        /\ KeepsPrompt(jobs[n]) /\ KeepsOutput(n, jobs[n])
        /\ Inside(jobs[n].stem.dir) \/ jobs[n].moved
=============================================================================
