------------------------------ MODULE ChatTurns ------------------------------
(***************************************************************************)
(* One chat session of the panel: a file on disk that the threads of the   *)
(* server read, extend by an exchange with a language model and write back *)
(* under the session's lock file (web.py), and what the model's provider   *)
(* may answer on the wire (provider._chat_turn).                           *)
(*                                                                         *)
(* An exchange is the number of the call that asked for it; of what the    *)
(* model answers the kind and the scenes of a project are kept.            *)
(***************************************************************************)
EXTENDS Integers, FiniteSets, Sequences, SequencesExt

CONSTANTS
    Thread,      \* threads of the server
    Wires,       \* what may come back for one request to a provider
    MaxCalls,    \* bound: calls of the two routes
    MaxDeaths    \* bound: deaths of the server

ASSUME ChatAssumption == MaxCalls \in Nat

Nul == "null"
ChatKinds == {"video", "clip"}
NoProject == [kind |-> Nul, scenes |-> Nul, given |-> FALSE]
NoFile == [there |-> FALSE, log |-> <<>>, project |-> NoProject, kind |-> Nul]
NoLock == 0

VARIABLES
    session,  \* <sid>.json
    lock,     \* the inode <sid>.lock names
    inodes,   \* how many lock files there have been
    th,       \* the threads
    calls,    \* the bound's counter; numbers the calls
    deaths,
    born,     \* history: the session was created
    answer    \* history: "kept", "deleted" or "no", whatever each call was answered

chatVars == <<session, lock, inodes, th, calls, deaths, born, answer>>

NoCall == [at |-> "idle", op |-> "turn", call |-> 0, fd |-> NoLock, holds |-> FALSE,
           seen |-> NoFile, strict |-> FALSE, heard |-> <<>>, code |-> "none"]

ChatInit ==
    /\ session = NoFile /\ lock = NoLock /\ inodes = 0
    /\ th = [t \in Thread |-> NoCall]
    /\ calls = 0 /\ deaths = 0 /\ born = FALSE
    /\ answer = [c \in 1..MaxCalls |-> "none"]

-----------------------------------------------------------------------------
(* The wire.                                                               *)

Got(code, halves, limit) == [code |-> code, halves |-> halves, limit |-> limit]

\* Mutant: a stream that breaks off is taken for a short one.
ReadSseToTheEnd(lines) ==
    LET Take(acc, line) ==
            IF acc.over # "no" THEN acc
            ELSE CASE line = "done" -> [acc EXCEPT !.over = "ok"]
                   [] line \in {"junk", "error"} -> [acc EXCEPT !.over = "bad_provider_reply"]
                   [] line = "half" -> [acc EXCEPT !.halves = @ + 1]
                   [] line \in {"finish", "length"} -> [acc EXCEPT !.finish = line]
                   [] OTHER -> acc
        end == FoldLeft(Take, [over |-> "no", halves |-> 0, finish |-> Nul], lines)
    IN  Got(IF end.over # "no" THEN end.over ELSE "ok", end.halves, end.finish = "length")

\* _read_sse.  A line is half of the text, a finish_reason ("length": the model's
\* limit), [DONE], an error event, what is no JSON, or one without content.  After
\* the last one the provider closes, or the socket fails ("cut").
ReadSse(lines) ==
    LET Take(acc, line) ==
            IF acc.over # "no" THEN acc
            ELSE CASE line = "done" -> [acc EXCEPT !.over = "ok"]
                   [] line \in {"junk", "error"} -> [acc EXCEPT !.over = "bad_provider_reply"]
                   [] line = "cut" -> [acc EXCEPT !.over = "chat_unreachable"]
                   [] line = "half" -> [acc EXCEPT !.halves = @ + 1]
                   [] line \in {"finish", "length"} -> [acc EXCEPT !.finish = line]
                   [] OTHER -> acc
        end == FoldLeft(Take, [over |-> "no", halves |-> 0, finish |-> Nul], lines)
        code == IF end.over # "no" THEN end.over
                ELSE IF end.finish # Nul THEN "ok" ELSE "chat_unreachable"
    IN  Got(code, end.halves, end.finish = "length")

\* _envelope_to_turn, of a body that came in one piece.
EnvelopeToTurn(body) ==
    IF body \in {"junk", "error"} THEN Got("bad_provider_reply", 0, FALSE)
    ELSE Got("ok", 2, body = "length")

\* ask.  Nobody there, a timeout and a gateway's 502 to 504 are one thing, any
\* other status is the provider's own answer.
Ask(w) ==
    CASE w.shape = "none" -> Got("chat_unreachable", 0, FALSE)
      [] w.shape = "status" -> Got("bad_provider_reply", 0, FALSE)
      [] w.shape = "plain" -> EnvelopeToTurn(w.lines[1])
      [] w.shape = "stream" -> ReadSse(w.lines)

\* What happened, said without reading line by line.
Truth(w) ==
    LET ends == {i \in DOMAIN w.lines : w.lines[i] \in {"done", "error", "junk", "cut"}}
        last == IF ends = {} THEN Len(w.lines) + 1 ELSE CHOOSE i \in ends : \A j \in ends : i <= j
        marks == {i \in DOMAIN w.lines : i < last /\ w.lines[i] \in {"finish", "length"}}
        limit == \E i \in marks : w.lines[i] = "length" /\ \A j \in marks : j <= i
    IN  CASE w.shape = "none" -> "silence"
          [] w.shape = "status" -> "refusal"
          [] w.shape = "plain" ->
               IF w.lines[1] \in {"junk", "error"} THEN "refusal"
               ELSE IF w.lines[1] = "length" THEN "limit" ELSE w.form
          [] w.shape = "stream" ->
               IF ends # {} /\ w.lines[last] \in {"error", "junk"} THEN "refusal"
               ELSE IF IF ends = {} THEN marks = {} ELSE w.lines[last] = "cut" THEN "silence"
               ELSE IF limit THEN "limit"
               ELSE IF Cardinality({i \in 1..(last - 1) : w.lines[i] = "half"}) = 2 THEN w.form
               ELSE "prose"

\* One request: what _chat_turn gets of it, and what it was.
Replies == { [got |-> Ask(w), truth |-> Truth(w), form |-> w.form, project |-> w.project] :
               w \in Wires }

\* _parse_model_json; a strict provider's answer is held against the schema too.
Parses(reply, strict) ==
    /\ reply.got.halves = 2
    /\ IF strict THEN reply.form = "turn" ELSE reply.form # "prose"

-----------------------------------------------------------------------------
(* The calls.                                                              *)

Set(t, at) == th' = [th EXCEPT ![t].at = at]

\* What the call will be answered is known; its lock is still held.
Answer(t, code, heard) ==
    th' = [th EXCEPT ![t].at = "told", ![t].code = code, ![t].heard = heard]

Disk == <<session, lock, inodes>>
Calls == <<calls, deaths, born, answer>>

\* _create_chat; the chat of a project starts with the project's kind.
Create ==
    /\ ~born /\ born' = TRUE
    /\ \E kind \in {Nul, "video"} : session' = [NoFile EXCEPT !.there = TRUE, !.kind = kind]
    /\ UNCHANGED <<lock, inodes, th, calls, deaths, answer>>

\* _chat_message and _delete_chat, up to the look for the file.
Call(t, op) ==
    /\ th[t].at = "idle" /\ calls < MaxCalls
    /\ session.there
    /\ calls' = calls + 1
    /\ th' = [th EXCEPT ![t] = [NoCall EXCEPT !.at = "open", !.op = op, !.call = calls + 1]]
    /\ UNCHANGED Disk /\ UNCHANGED <<deaths, born, answer>>

\* chat_session_lock opens the lock file, which creates it where there is none.
OpenLock(t) ==
    /\ th[t].at = "open"
    /\ inodes' = IF lock = NoLock THEN inodes + 1 ELSE inodes
    /\ lock' = IF lock = NoLock THEN inodes + 1 ELSE lock
    /\ th' = [th EXCEPT ![t].fd = lock', ![t].at = "flock"]
    /\ UNCHANGED session /\ UNCHANGED Calls

\* And asks for the lock of what it has opened, without waiting.
Flock(t) ==
    /\ th[t].at = "flock"
    /\ IF \E u \in Thread : th[u].holds /\ th[u].fd = th[t].fd
       THEN Answer(t, "chat_busy", <<>>)
       ELSE th' = [th EXCEPT ![t].holds = TRUE,
                             ![t].at = IF th[t].op = "turn" THEN "read" ELSE "unlink"]
    /\ UNCHANGED Disk /\ UNCHANGED Calls

\* A message that is no text makes the file one this server refuses.
Sound(chat) == \A i \in DOMAIN chat.log : chat.log[i].text

\* _locked_turn: the session is read again.
Read(t) ==
    /\ th[t].at = "read"
    /\ IF ~session.there THEN Answer(t, "chat_not_found", <<>>)
       ELSE IF ~Sound(session) THEN Answer(t, "chat_corrupt", <<>>)
       ELSE th' = [th EXCEPT ![t].seen = session, ![t].at = "check"]
    /\ UNCHANGED Disk /\ UNCHANGED Calls

\* How a provider's entry asks for the turn's form, unless it misspells the limit.
Entries == {"json_schema", "json_object", "misspelt"}

\* The request's own fields, the provider, the GPU, the local model's start: any of
\* them may refuse the turn before the model is asked.
Check(t) ==
    /\ th[t].at = "check"
    /\ \/ Answer(t, "refused", <<>>)
       \/ \E entry \in Entries :
             IF entry = "misspelt" THEN Answer(t, "bad_provider_config", <<>>)
             ELSE th' = [th EXCEPT ![t].strict = (entry = "json_object"), ![t].at = "ask"]
    /\ UNCHANGED Disk /\ UNCHANGED Calls

\* Mutant: the project of this turn replaces the one before it.
MergedWhole(chat, project) ==
    IF ~project.given THEN chat
    ELSE [chat EXCEPT !.project = project,
                      !.kind = IF project.kind \in ChatKinds THEN project.kind ELSE Nul]

\* The project of a turn over the session's: null says nothing new.
Merged(chat, project) ==
    LET kind == IF project.kind = Nul THEN chat.project.kind ELSE project.kind
        scenes == IF project.scenes = Nul THEN chat.project.scenes ELSE project.scenes
    IN  IF ~project.given THEN chat
        ELSE [chat EXCEPT !.project = [kind |-> kind, scenes |-> scenes, given |-> TRUE],
                          !.kind = IF kind \in ChatKinds THEN kind ELSE Nul]

\* The turn is an object and its reply a text.
Accepts(reply) == reply.form = "turn"

Extended(chat, call, reply) ==
    [Merged(chat, reply.project) EXCEPT
        !.log = Append(@, [call |-> call, text |-> reply.form = "turn",
                           project |-> reply.project])]

\* _chat_turn: one request, and a second one for what does not parse.
Turn(t) ==
    /\ th[t].at = "ask"
    /\ \E reply \in Replies :
          LET heard == Append(th[t].heard, reply.truth)
          IN  IF reply.got.code # "ok" THEN Answer(t, reply.got.code, heard)
              ELSE IF reply.got.limit THEN Answer(t, "chat_truncated", heard)
              ELSE IF Parses(reply, th[t].strict)
              THEN IF Accepts(reply)
                   THEN th' = [th EXCEPT ![t].seen = Extended(@, th[t].call, reply),
                                         ![t].heard = heard, ![t].at = "write"]
                   ELSE Answer(t, "bad_model_json", heard)
              ELSE IF Len(heard) = 2 THEN Answer(t, "bad_model_json", heard)
              ELSE th' = [th EXCEPT ![t].heard = heard]
    /\ UNCHANGED Disk /\ UNCHANGED Calls

\* _write_session, durably or not at all.
WriteSession(t) ==
    /\ th[t].at = "write"
    /\ \/ session' = th[t].seen /\ Answer(t, "ok", th[t].heard)
       \/ UNCHANGED session /\ Answer(t, "queue_unwritable", th[t].heard)
    /\ UNCHANGED <<lock, inodes>> /\ UNCHANGED Calls

\* Mutant: the lock file goes first.
UnlinkLockFirst(t) ==
    /\ \/ th[t].at = "unlink" /\ lock' = NoLock /\ UNCHANGED session /\ Set(t, "unlink2")
       \/ th[t].at = "unlink2" /\ session' = NoFile /\ UNCHANGED lock /\ Answer(t, "ok", <<>>)
    /\ UNCHANGED inodes /\ UNCHANGED Calls

\* _delete_chat: the session, then its lock file.
Unlink(t) ==
    /\ \/ th[t].at = "unlink" /\ session' = NoFile /\ UNCHANGED lock /\ Set(t, "unlink2")
       \/ th[t].at = "unlink2" /\ lock' = NoLock /\ UNCHANGED session /\ Answer(t, "ok", <<>>)
    /\ UNCHANGED inodes /\ UNCHANGED Calls

\* The lock is let go and the answer sent.
Reply(t) ==
    /\ th[t].at = "told"
    /\ answer' = [answer EXCEPT ![th[t].call] =
                     IF th[t].code # "ok" THEN "no"
                     ELSE IF th[t].op = "turn" THEN "kept" ELSE "deleted"]
    /\ th' = [th EXCEPT ![t] = NoCall]
    /\ UNCHANGED Disk /\ UNCHANGED <<calls, deaths, born>>

\* The server dies; the kernel frees its locks.
Die ==
    /\ deaths < MaxDeaths /\ \E t \in Thread : th[t].at # "idle"
    /\ deaths' = deaths + 1
    /\ th' = [t \in Thread |-> NoCall]
    /\ UNCHANGED Disk /\ UNCHANGED <<calls, born, answer>>

Step(t) ==
    \/ OpenLock(t) \/ Flock(t) \/ Read(t) \/ Check(t) \/ Turn(t) \/ WriteSession(t) \/ Unlink(t)
    \/ Reply(t)

ChatNext ==
    \/ Create \/ Die
    \/ \E t \in Thread : Step(t) \/ \E op \in {"turn", "delete"} : Call(t, op)

ChatSpec == ChatInit /\ [][ChatNext]_chatVars

-----------------------------------------------------------------------------
(* The properties.                                                         *)

\* A turn that was answered is in the session, once and in the form the server
\* reads back, while the session is there; one that was refused is not; and a
\* session whose deletion was answered stays deleted.
ExchangesKept ==
    LET Times(c) == Cardinality({i \in DOMAIN session.log : session.log[i].call = c})
    IN  /\ Sound(session)
        /\ \A c \in 1..calls :
              /\ answer[c] = "deleted" => ~session.there
              /\ answer[c] = "kept" /\ session.there => Times(c) = 1
              /\ answer[c] = "no" => Times(c) = 0

\* What the session says of its project is what the turns have last said of it,
\* field by field, and its kind is the project's.
ProjectFollows ==
    LET told == {i \in DOMAIN session.log : session.log[i].project.given}
        Said(f) == {i \in told : session.log[i].project[f] # Nul}
        LastSaid(f) == session.log[CHOOSE i \in Said(f) : \A j \in Said(f) : j <= i].project[f]
    IN  /\ \A f \in {"kind", "scenes"} :
              session.project[f] = IF Said(f) = {} THEN Nul ELSE LastSaid(f)
        /\ told # {} =>
              session.kind = IF session.project.kind \in ChatKinds THEN session.project.kind ELSE Nul

\* The failures mean what the page says of them: the model is blamed for its format
\* only when it has spoken to the end, is asked again only then, and an answer that
\* was cut is never taken for a turn.
CauseNamed ==
    \A t \in Thread : th[t].at = "told" /\ th[t].heard # <<>> =>
        LET code == th[t].code
            heard == th[t].heard
            misspoken == {"prose", "list", "number"}
        IN  /\ code \in {"ok", "queue_unwritable"} => Last(heard) = "turn"
            /\ code = "chat_truncated" => Last(heard) = "limit"
            /\ code = "chat_unreachable" => Last(heard) = "silence"
            /\ code = "bad_provider_reply" => Last(heard) = "refusal"
            /\ code = "bad_model_json" => Last(heard) \in misspoken
            /\ Len(heard) = 2 => heard[1] \in misspoken
=============================================================================
