------------------------------- MODULE Library --------------------------------
(***************************************************************************)
(* One card of the reference library (library.py) under the requests of    *)
(* the panel, and the projects that pin it at a version (web.py).  The     *)
(* card's lock is a file of its directory, so a request that waits for it  *)
(* while the card is deleted holds, later, the lock of a directory in the  *)
(* trash.  A card's description and assets are a number, new for every     *)
(* write.                                                                  *)
(***************************************************************************)
EXTENDS Naturals, Sequences, SequencesExt, FiniteSets

CONSTANTS
    Callers,      \* the server's threads
    Projects,
    Nobody,
    MaxCardCalls, \* bound: requests handled
    MaxFaults     \* bound: deaths of the panel and errors of the disk

ASSUME CardAssumption == Nobody \notin Callers

NoDir == 0
NoCard == <<>>

VARIABLES
    dir,         \* which directory is library/<name>
    dirs,        \* per directory that ever was it: card.json and the vN/ in it
    cardLock,    \* per directory: who holds its card.lock
    pins,        \* per project: [version, text], version 0 for none
    call,        \* where each request is, and what it carries
    cardCalls, faults,
    raced,       \* history: the projects whose pin was written beside a deletion
    foreign,     \* history: something was done under the lock of another directory
    cut          \* history: an error or a death between a directory and its card

cardVars == <<dir, dirs, cardLock, pins, call, cardCalls, faults, raced, foreign, cut>>
pinned == <<pins, raced>>

NoCall == [pc |-> "idle", does |-> "nothing", at |-> NoDir, card |-> NoCard,
           text |-> 0, assets |-> 0, project |-> Nobody]
NoPin == [version |-> 0, text |-> 0]

CardInit ==
    /\ dir = NoDir /\ dirs = <<>> /\ cardLock = <<>>
    /\ pins = [p \in Projects |-> NoPin]
    /\ call = [r \in Callers |-> NoCall]
    /\ cardCalls = 0 /\ faults = 0
    /\ raced = {} /\ foreign = FALSE /\ cut = FALSE

-----------------------------------------------------------------------------
(* The directory.                                                          *)

Card == IF dir = NoDir THEN NoCard ELSE dirs[dir].card

\* mkdir of library/<name>, with the folders it is made for.
MakeDir(folders) ==
    /\ dirs' = Append(dirs, [card |-> NoCard, folders |-> folders])
    /\ cardLock' = Append(cardLock, Nobody)
    /\ dir' = Len(dirs) + 1
SameDirs == UNCHANGED <<dir, dirs>>

BeginCall(r) ==
    /\ call[r].pc = "idle" /\ cardCalls < MaxCardCalls
    /\ cardCalls' = cardCalls + 1

Goto(r, pc) == call' = [call EXCEPT ![r].pc = pc]
\* The with block is left, or was never entered.
EndCall(r) ==
    /\ call' = [call EXCEPT ![r] = NoCall]
    /\ cardLock' = [g \in DOMAIN cardLock |-> IF cardLock[g] = r THEN Nobody ELSE cardLock[g]]

\* What is done to the path under the lock of another directory.
Under(r) == foreign' = (foreign \/ call[r].at # dir)

-----------------------------------------------------------------------------
(* create_card, update_card, delete_card                                   *)

\* The directory is the claim of the tag.
Create(r) ==
    /\ BeginCall(r) /\ dir = NoDir
    /\ MakeDir({})
    /\ call' = [call EXCEPT ![r] = [NoCall EXCEPT !.pc = "open", !.does = "create",
                                                  !.text = cardCalls']]
    /\ UNCHANGED <<pinned, faults, foreign, cut>>

\* The first _read, without the lock.
Call(r, does) ==
    /\ BeginCall(r) /\ Card # NoCard
    /\ call' = [call EXCEPT ![r] = [NoCall EXCEPT !.pc = "open", !.does = does,
                                                  !.text = cardCalls']]
    /\ SameDirs /\ UNCHANGED <<cardLock, pinned, faults, foreign, cut>>

\* _card_lock: the file of the directory that is there now.
Open(r) ==
    /\ call[r].pc = "open"
    /\ IF dir = NoDir THEN EndCall(r)
       ELSE call' = [call EXCEPT ![r].pc = "lock", ![r].at = dir] /\ UNCHANGED cardLock
    /\ SameDirs /\ UNCHANGED <<pinned, cardCalls, faults, foreign, cut>>

Flock(r) ==
    /\ call[r].pc = "lock" /\ cardLock[call[r].at] = Nobody
    /\ cardLock' = [cardLock EXCEPT ![call[r].at] = r]
    /\ Goto(r, IF call[r].does = "create" THEN "copy" ELSE "read")
    /\ SameDirs /\ UNCHANGED <<pinned, cardCalls, faults, foreign, cut>>

\* The second _read, under the lock: a description alone keeps the assets, if
\* they are there.
ReadCard(r) ==
    /\ call[r].pc = "read"
    /\ \/ Card = NoCard /\ EndCall(r)
       \/ /\ Card # NoCard
          /\ \/ call[r].does = "delete" /\ Goto(r, "scan")
             \/ call[r].does = "update" /\ call' = [call EXCEPT ![r].pc = "copy", ![r].card = Card]
             \/ /\ call[r].does = "update" /\ Last(Card).assets \in dirs[dir].folders
                /\ call' = [call EXCEPT ![r].pc = "write", ![r].card = Card,
                                    ![r].assets = Last(Card).assets]
          /\ UNCHANGED cardLock
    /\ SameDirs /\ UNCHANGED <<pinned, cardCalls, faults, foreign, cut>>

\* _copy_assets: vN must not be there, the directory above it need not.
Copy(r) ==
    /\ call[r].pc = "copy"
    /\ LET n == Len(call[r].card) + 1
       IN  IF dir = NoDir
           THEN MakeDir({n}) /\ call' = [call EXCEPT ![r].pc = "write", ![r].assets = n]
           ELSE IF n \in dirs[dir].folders THEN EndCall(r) /\ SameDirs
           ELSE /\ dirs' = [dirs EXCEPT ![dir].folders = @ \cup {n}]
                /\ call' = [call EXCEPT ![r].pc = "write", ![r].assets = n]
                /\ UNCHANGED <<dir, cardLock>>
    /\ Under(r)
    /\ UNCHANGED <<pinned, cardCalls, faults, cut>>

\* write_json_durably; a directory that is gone is an error.
Write(r) ==
    /\ call[r].pc = "write"
    /\ IF dir = NoDir THEN UNCHANGED dirs
       ELSE dirs' = [dirs EXCEPT ![dir].card =
                       Append(call[r].card, [text |-> call[r].text, assets |-> call[r].assets])]
    /\ EndCall(r) /\ Under(r)
    /\ UNCHANGED <<dir, pinned, cardCalls, faults, cut>>

\* Mutant: the projects were asked before the lock.
ScanNothing(r) ==
    /\ call[r].pc = "scan"
    /\ Goto(r, "move")
    /\ UNCHANGED cardLock
    /\ SameDirs /\ UNCHANGED <<pinned, cardCalls, faults, foreign, cut>>

\* pinned_by: the projects that name the tag, read under the card's lock.
ScanPins(r) ==
    /\ call[r].pc = "scan"
    /\ IF \E p \in Projects : pins[p] # NoPin THEN EndCall(r)
       ELSE Goto(r, "move") /\ UNCHANGED cardLock
    /\ SameDirs /\ UNCHANGED <<pinned, cardCalls, faults, foreign, cut>>

\* To the trash, with all its versions.
Move(r) ==
    /\ call[r].pc = "move"
    /\ dir' = NoDir
    /\ EndCall(r) /\ Under(r)
    /\ UNCHANGED <<dirs, pinned, cardCalls, faults, cut>>

-----------------------------------------------------------------------------
(* The projects.                                                           *)

\* _pinned_references: the version asked for, or the latest.
LookUp(r, p) ==
    /\ BeginCall(r)
    /\ \E n \in DOMAIN Card :
         call' = [call EXCEPT ![r] = [NoCall EXCEPT !.pc = "pin", !.at = dir, !.card = Card,
                                              !.assets = n, !.project = p]]
    /\ SameDirs /\ UNCHANGED <<cardLock, pinned, faults, foreign, cut>>

\* set_references, under the project's lock alone.
SetReferences(r) ==
    /\ call[r].pc = "pin"
    /\ LET n == call[r].assets
       IN pins' = [pins EXCEPT ![call[r].project] =
                     [version |-> n, text |-> call[r].card[n].text]]
    /\ raced' = IF dir # call[r].at \/ \E s \in Callers : call[s].pc = "move"
                THEN raced \cup {call[r].project} ELSE raced \ {call[r].project}
    /\ call' = [call EXCEPT ![r] = NoCall]
    /\ SameDirs /\ UNCHANGED <<cardLock, cardCalls, faults, foreign, cut>>

\* Other references, or the project is deleted.
Unpin(p) ==
    /\ pins[p] # NoPin
    /\ pins' = [pins EXCEPT ![p] = NoPin]
    /\ raced' = raced \ {p}
    /\ SameDirs /\ UNCHANGED <<cardLock, call, cardCalls, faults, foreign, cut>>

-----------------------------------------------------------------------------
(* Faults.                                                                 *)

Fault == faults < MaxFaults /\ faults' = faults + 1
\* A directory, or a version's, that the card does not name yet.
Halfway(r) == \/ call[r].does = "create"
              \/ call[r].pc = "write" /\ call[r].assets = Len(call[r].card) + 1

\* A disk error in one request, in the copy or in the card.
Fail(r) ==
    /\ call[r].pc \in {"copy", "write"} /\ Fault
    /\ cut' = (cut \/ Halfway(r))
    /\ EndCall(r)
    /\ SameDirs /\ UNCHANGED <<pinned, cardCalls, foreign>>

\* The panel dies in the middle of a request and starts again.
PanelDies ==
    /\ Fault
    /\ \E r \in Callers : call[r].pc # "idle"
    /\ cut' = (cut \/ \E r \in Callers : Halfway(r))
    /\ call' = [r \in Callers |-> NoCall]
    /\ cardLock' = [g \in DOMAIN cardLock |-> Nobody]
    /\ SameDirs /\ UNCHANGED <<pinned, cardCalls, foreign>>

CardStep(r) ==
    \/ Create(r) \/ Call(r, "update") \/ Call(r, "delete")
    \/ Open(r) \/ Flock(r) \/ ReadCard(r) \/ Copy(r) \/ Write(r) \/ ScanPins(r) \/ Move(r)
    \/ SetReferences(r) \/ Fail(r)
    \/ \E p \in Projects : LookUp(r, p)

CardNext ==
    \/ \E r \in Callers : CardStep(r)
    \/ \E p \in Projects : Unpin(p)
    \/ PanelDies

CardSpec == CardInit /\ [][CardNext]_cardVars

-----------------------------------------------------------------------------
(* The properties.                                                         *)

PinsHold ==
    \A p \in Projects \ raced :
        LET pin == pins[p]
        IN  pin # NoPin =>
              /\ Card # NoCard /\ pin.version \in DOMAIN Card
              /\ Card[pin.version].text = pin.text
              /\ Card[pin.version].assets \in dirs[dir].folders
TagUsable ==
    (\A r \in Callers : call[r].pc = "idle") /\ ~cut /\ dir # NoDir =>
        Card # NoCard /\ dirs[dir].folders \subseteq DOMAIN Card

\* What a project has pinned is there with its files, as it was when it was pinned:
\* no update changes it and no deletion takes it, but the one that had looked at the
\* projects before the pin was written.  No tag is taken without a card that can be
\* read, updated and deleted, unless an error cut its making short.  Neither is
\* promised once a request has worked under the lock of another directory.
CardsHold == ~foreign => PinsHold /\ TagUsable
=============================================================================
