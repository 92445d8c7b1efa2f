------------------------------ MODULE StudioTabs -----------------------------
(***************************************************************************)
(* One project of the studio open in several browser tabs: the scene cards *)
(* with their drafts (sceneDraft.ts, SceneCard.tsx), the set's operations  *)
(* (ScenarioStep.tsx), the snapshots and events that keep a tab up to date *)
(* (ProjectScreen.tsx, useEvents.ts) and the server that answers each      *)
(* request in one transaction (StudioOps).  A request or its answer can be *)
(* lost; a request its tab has given up on can still be served.            *)
(***************************************************************************)
EXTENDS StudioOps

CONSTANTS
    Tabs,         \* the browser tabs
    Words,        \* what is typed into a field
    Projects,     \* the projects a behaviour may start from
    Inputs,       \* the fields typed into, as <<scene, field>>
    MaxIds,       \* scenes there can ever be
    MaxWrites,    \* commits
    MaxActs,      \* fields typed, scenes saved and operations pressed
    MaxLost       \* requests and answers lost

VARIABLES
    project,      \* the project in SQLite
    used,         \* the last scene id given
    applied,      \* the tabs whose proposal has been applied (proposal.applied_at)
    stray,        \* requests that are still to be served and nobody waits for
    page,         \* "shown", or "error": ProjectScreen's error page
    snap,         \* the snapshot a tab shows
    load,         \* its latest GET: "no", "asked" or "read"
    loaded,       \* the snapshot that was read for it
    offer,        \* the tabs that show a proposal
    orphan,       \* cards of scenes removed elsewhere, kept for their drafts
    ownDeleted,   \* the scenes the tab has asked to delete
    card,         \* the cards: tab, scene -> DraftState
    op,           \* the operation on the set in flight (busy)
    lost, acts    \* counters for the bounds

db      == <<project, used, applied>>
feed    == <<snap, load, loaded>>
screen  == <<page, feed, offer, orphan, ownDeleted>>
tabVars == <<db, screen, stray, card, op, lost, acts>>

Texts == Words \cup {"blank", "llm", "other"}

Scenes == [text : Texts, wish : Texts, kind : {"none", "asset", "prev"}, from : Nat,
           auto : BOOLEAN, edit : Nat]

\* A source that is not derived is named.
Sourced(scene) ==
    IF scene.kind = "prev" THEN scene.auto \/ scene.from # NoScene
                           ELSE ~scene.auto /\ scene.from = NoScene

\* Every scene is in the order once.
Sound(p) ==
    /\ p \in [seq : Nat, revision : Nat, order : Seq(Nat \ {NoScene}), scenes : [Live(p) -> Scenes]]
    /\ Live(p) = {p.order[i] : i \in DOMAIN p.order}
    /\ \A i, j \in DOMAIN p.order : p.order[i] = p.order[j] => i = j
    /\ \A s \in Live(p) : Sourced(p.scenes[s])

\* A frame source is a scene that is there and another one, and one derived from
\* the order is the scene before.
SourcesIn(p) ==
    \A s \in Live(p) :
        LET scene == p.scenes[s]
        IN /\ scene.from \in (Live(p) \ {s}) \cup {NoScene}
           /\ scene.auto => scene.from = Before(p.order, s)

\* Scenes are numbered as they come.
ASSUME TabsAssumption ==
    \A p \in Projects : Sound(p) /\ SourcesIn(p) /\ Live(p) = 1..Len(p.order)

NoPatch == [on |-> FALSE]
NoOp    == [kind |-> "none"]

\* A card as it is mounted: init(scene).
Fresh(scene) ==
    [draft |-> Draft(scene), dirty |-> {}, base |-> scene, server |-> scene,
     patch |-> NoPatch, retyped |-> {}, queued |-> FALSE, conflict |-> FALSE]

Cards(p) == [s \in Live(p) |-> Fresh(p.scenes[s])]

TabsInit ==
    /\ project \in Projects
    /\ used = Cardinality(Live(project))
    /\ applied = {} /\ stray = {} /\ offer = Tabs
    /\ page = [t \in Tabs |-> "shown"]
    /\ snap = [t \in Tabs |-> project]
    /\ load = [t \in Tabs |-> "no"]
    /\ loaded = [t \in Tabs |-> project]
    /\ orphan = [t \in Tabs |-> {}]
    /\ ownDeleted = [t \in Tabs |-> {}]
    /\ card = [t \in Tabs |-> Cards(project)]
    /\ op = [t \in Tabs |-> NoOp]
    /\ lost = 0 /\ acts = 0

OnPage(t, s) == page[t] = "shown" /\ s \in DOMAIN card[t]

(***************************************************************************)
(* A card (sceneDraft.ts).  dirty holds the fields whose gen is above      *)
(* cleanGen, retyped those whose gen is no longer what was sent.  base is  *)
(* kept as the scene that had that edit_version.                           *)
(***************************************************************************)

Newer(a, b) == IF b.edit > a.edit THEN b ELSE a

AdoptClean(c) ==
    [c EXCEPT !.draft = [f \in Fields |-> IF f \in c.dirty THEN @[f] ELSE c.server[f]]]

\* start: the dirty fields go out over a version, or wait for the answer to
\* what is out already.
Sending(c, over) ==
    CASE c.patch.on    -> [c EXCEPT !.queued = TRUE]
      [] ~c.patch.on /\ c.dirty = {} -> [c EXCEPT !.queued = FALSE]
      [] OTHER -> [c EXCEPT !.queued = FALSE, !.retyped = {},
                            !.patch = [on |-> TRUE, answer |-> "none", scene |-> over,
                                       over |-> over, body |-> [f \in c.dirty |-> c.draft[f]]]]

Flushed(c) ==
    IF c.queued /\ ~c.patch.on /\ ~c.conflict THEN Sending(c, c.base) ELSE c

\* Mutant: a card with unsaved text ignores the snapshots.
SceneSeenClean(c, scene) ==
    IF scene.edit <= c.server.edit \/ c.dirty # {} THEN c
    ELSE [AdoptClean([c EXCEPT !.server = scene]) EXCEPT !.base = scene]

\* A newer state of the scene is seen in a snapshot.
SceneSeen(c, scene) ==
    IF scene.edit <= c.server.edit THEN c
    ELSE LET next == AdoptClean([c EXCEPT !.server = scene])
         IN IF next.dirty # {} THEN next ELSE [next EXCEPT !.base = scene]

\* received, by the answer's kind.
Failed(c) == [c EXCEPT !.patch = NoPatch, !.retyped = {}, !.queued = FALSE]

Conflicted(c, current) ==
    LET free == [c EXCEPT !.patch = NoPatch, !.retyped = {}]
        next == AdoptClean([free EXCEPT !.server = Newer(@, current)])
    IN CASE current.edit <= c.base.edit -> Flushed(free)
         [] current.edit > c.base.edit /\ next.dirty = {} -> Flushed([next EXCEPT !.base = next.server, !.conflict = FALSE])
         [] OTHER -> [next EXCEPT !.conflict = TRUE, !.queued = FALSE]

\* Mutant: an accepted save makes the whole card clean.
SavedWhole(c, scene) ==
    LET server == Newer(c.server, scene)
    IN Flushed(AdoptClean([c EXCEPT !.patch = NoPatch, !.retyped = {}, !.dirty = {},
                                    !.server = server, !.base = server, !.conflict = FALSE]))

Saved(c, scene) ==
    LET free   == [c EXCEPT !.patch = NoPatch, !.retyped = {}]
        server == Newer(c.server, scene)
        next   == AdoptClean([free EXCEPT !.dirty = @ \cap c.retyped, !.server = server,
                                          !.conflict = FALSE])
    IN IF scene.edit < c.base.edit
       THEN Flushed(free)
       ELSE Flushed([next EXCEPT !.base = IF next.dirty # {} THEN scene ELSE server])

\* A field is typed into; the request on its way, if any, no longer has it.
Typed(c, f, v) ==
    [c EXCEPT !.draft[f] = v, !.dirty = @ \cup {f},
              !.retyped = IF c.patch.on THEN @ \cup {f} ELSE @]

Type(t, s, f, v) ==
    /\ OnPage(t, s) /\ <<s, f>> \in Inputs
    /\ v # card[t][s].draft[f]
    /\ acts < MaxActs
    /\ acts' = acts + 1
    /\ card' = [card EXCEPT ![t][s] = Typed(card[t][s], f, v)]
    /\ UNCHANGED <<db, screen, stray, op, lost>>

PressCard(t, s, c) ==
    /\ acts < MaxActs
    /\ acts' = acts + 1
    /\ card' = [card EXCEPT ![t][s] = c]
    /\ UNCHANGED <<db, screen, stray, op, lost>>

Save(t, s) ==
    /\ OnPage(t, s) /\ s \notin orphan[t]
    /\ card[t][s].dirty # {} /\ ~card[t][s].conflict
    /\ PressCard(t, s, Sending(card[t][s], card[t][s].base))

SaveMine(t, s) ==
    /\ OnPage(t, s)
    /\ card[t][s].conflict
    /\ PressCard(t, s, Sending(card[t][s], card[t][s].server))

TakeServer(t, s) ==
    /\ OnPage(t, s)
    /\ card[t][s].conflict
    /\ PressCard(t, s, AdoptClean([card[t][s] EXCEPT !.dirty = {}, !.base = card[t][s].server,
                                                 !.conflict = FALSE, !.queued = FALSE]))

(***************************************************************************)
(* The operations on the set (ScenarioStep.tsx): each is computed from the *)
(* snapshot shown when it is pressed, one at a time.                       *)
(***************************************************************************)

Blank == [f \in Fields |-> "blank"]

Told == [f \in Fields |-> "llm"]

PressOp(t, kind, s, draft) ==
    /\ page[t] = "shown"
    /\ op[t] = NoOp
    /\ acts < MaxActs
    /\ acts' = acts + 1
    /\ op' = [op EXCEPT ![t] = [kind |-> kind, of |-> s, draft |-> draft,
                                view |-> snap[t], answer |-> "none"]]
    /\ UNCHANGED <<db, page, feed, offer, orphan, stray, card, lost>>

Request(o) ==
    CASE o.kind = "remove" -> Without(o.view, o.of)
      [] o.kind = "apply"  -> Applied(o.view, o.draft)
      [] OTHER             -> Appended(o.view, o.draft)

AddScene(t) == PressOp(t, "add", NoScene, Blank) /\ UNCHANGED ownDeleted

Remove(t, s) ==
    /\ s \in Live(snap[t])
    /\ PressOp(t, "remove", s, Blank)
    /\ ownDeleted' = [ownDeleted EXCEPT ![t] = @ \cup {s}]

Restore(t, s) ==
    /\ s \in orphan[t]
    /\ PressOp(t, "restore", s, card[t][s].draft)
    /\ UNCHANGED ownDeleted

Apply(t) ==
    /\ t \in offer
    /\ PressOp(t, "apply", NoScene, Told)
    /\ UNCHANGED ownDeleted

\* The card of a removed scene goes, by «Убрать» or because it is back as a new one.
CardsWithout(t, s) == [x \in DOMAIN card[t] \ {s} |-> card[t][x]]

Dismiss(t, s) ==
    /\ page[t] = "shown" /\ s \in orphan[t]
    /\ orphan' = [orphan EXCEPT ![t] = @ \ {s}]
    /\ card' = [card EXCEPT ![t] = CardsWithout(t, s)]
    /\ UNCHANGED <<db, page, feed, offer, ownDeleted, stray, op, lost, acts>>

(***************************************************************************)
(* The server: one transaction per request.                                *)
(***************************************************************************)

\* O8 and what it answers.
PatchOutcome(s, patch) ==
    IF s \notin Live(project) THEN [answer |-> "error", project |-> project]
    ELSE IF PatchConflict(project, s, patch.over.edit)
         THEN [answer |-> "conflict", project |-> project]
         ELSE [answer |-> "ok", project |-> Updated(project, s, patch.body)]

\* O7, and O26 that goes through it; t's proposal is applied once.
PutOutcome(t, o) ==
    LET req == Request(o)
    IN IF o.kind = "apply" /\ t \in applied THEN [answer |-> "error", project |-> project]
       ELSE IF PutConflict(project, req) THEN [answer |-> "conflict", project |-> project]
       ELSE IF PutUnknown(req, used + 1) THEN [answer |-> "error", project |-> project]
       ELSE [answer |-> "ok", project |-> Replaced(project, req, used + 1)]

Written(p) ==
    /\ p.seq <= MaxWrites
    /\ project' = p
    /\ used' = used + Cardinality(Live(p) \ Live(project))

\* The card whose request the server has answered.
Answered(c, answer, scene) ==
    [c EXCEPT !.patch = [c.patch EXCEPT !.answer = answer, !.scene = scene]]

PatchServed(t, s) ==
    /\ s \in DOMAIN card[t]
    /\ card[t][s].patch.on /\ card[t][s].patch.answer = "none"
    /\ LET out == PatchOutcome(s, card[t][s].patch)
       IN /\ Written(out.project)
          /\ card' = [card EXCEPT ![t][s] =
                         Answered(card[t][s], out.answer,
                                  IF out.answer = "error" THEN card[t][s].patch.scene
                                  ELSE out.project.scenes[s])]
    /\ UNCHANGED <<applied, screen, stray, op, lost, acts>>

OpServed(t) ==
    /\ op[t] # NoOp /\ op[t].answer = "none"
    /\ LET out == PutOutcome(t, op[t])
       IN /\ Written(out.project)
          /\ used' <= MaxIds
          /\ op' = [op EXCEPT ![t].answer = out.answer]
          /\ applied' = IF op[t].kind = "apply" /\ out.answer = "ok"
                        THEN applied \cup {t} ELSE applied
    /\ UNCHANGED <<screen, stray, card, lost, acts>>

\* A request whose tab has given up on it is served all the same.
StrayServed(r) ==
    /\ r \in stray
    /\ stray' = stray \ {r}
    /\ LET out == IF "patch" \in DOMAIN r THEN PatchOutcome(r.scene, r.patch)
                                          ELSE PutOutcome(r.tab, r.put)
       IN /\ Written(out.project)
          /\ used' <= MaxIds
          /\ applied' = IF "put" \in DOMAIN r /\ r.put.kind = "apply" /\ out.answer = "ok"
                        THEN applied \cup {r.tab} ELSE applied
    /\ UNCHANGED <<screen, card, op, lost, acts>>

\* Any other window, up to date with the project: what it may save or do.
OtherWindow ==
    /\ \/ \E s \in Live(project), f \in Fields :
             <<s, f>> \in Inputs /\ Written(Updated(project, s, [x \in {f} |-> "other"]))
       \/ \E s \in Live(project) :
             /\ ~PutUnknown(Without(project, s), used + 1)
             /\ Written(Replaced(project, Without(project, s), used + 1))
    /\ used' <= MaxIds
    /\ UNCHANGED <<applied, screen, stray, card, op, lost, acts>>

(***************************************************************************)
(* The answers, and what a tab does when none comes.                       *)
(***************************************************************************)

\* onChanged: a reload; the answer to an earlier one will be ignored.
Reload(t) ==
    /\ load' = [load EXCEPT ![t] = "asked"]
    /\ loaded' = [loaded EXCEPT ![t] = snap[t]]
    /\ UNCHANGED snap

PatchAnswered(t, s) ==
    /\ OnPage(t, s)
    /\ card[t][s].patch.on /\ card[t][s].patch.answer # "none"
    /\ LET c == card[t][s]
           a == c.patch.answer
       IN /\ card' = [card EXCEPT ![t][s] = CASE a = "ok" -> Saved(c, c.patch.scene)
                                             [] a = "conflict" -> Conflicted(c, c.patch.scene)
                                             [] OTHER -> Failed(c)]
          /\ IF a = "error" THEN UNCHANGED feed ELSE Reload(t)
    /\ UNCHANGED <<db, page, offer, orphan, ownDeleted, stray, op, lost, acts>>

\* «Сервер не ответил»: the request, or only its answer, is lost or late.
PatchLost(t, s) ==
    /\ OnPage(t, s)
    /\ card[t][s].patch.on
    /\ lost < MaxLost
    /\ lost' = lost + 1
    /\ card' = [card EXCEPT ![t][s] = Failed(card[t][s])]
    /\ stray' = IF card[t][s].patch.answer # "none" THEN stray
                ELSE stray \cup {[tab |-> t, scene |-> s, patch |-> card[t][s].patch]}
    /\ UNCHANGED <<db, screen, op, acts>>

OpAnswered(t) ==
    /\ op[t] # NoOp /\ op[t].answer # "none"
    /\ LET o == op[t]
           back == o.kind = "restore" /\ o.answer = "ok" /\ o.of \in orphan[t]
       IN /\ op' = [op EXCEPT ![t] = NoOp]
          /\ IF o.answer = "error" THEN UNCHANGED feed ELSE Reload(t)
          /\ offer' = IF o.kind = "apply" /\ o.answer = "ok" THEN offer \ {t} ELSE offer
          /\ orphan' = IF back THEN [orphan EXCEPT ![t] = @ \ {o.of}] ELSE orphan
          /\ card' = IF back THEN [card EXCEPT ![t] = CardsWithout(t, o.of)] ELSE card
    /\ UNCHANGED <<db, page, ownDeleted, stray, lost, acts>>

OpLost(t) ==
    /\ op[t] # NoOp
    /\ lost < MaxLost
    /\ lost' = lost + 1
    /\ op' = [op EXCEPT ![t] = NoOp]
    /\ stray' = IF op[t].answer # "none" THEN stray ELSE stray \cup {[tab |-> t, put |-> op[t]]}
    /\ UNCHANGED <<db, screen, card, acts>>

(***************************************************************************)
(* Snapshots and events.  Every change of the project is one event of a    *)
(* kind the tabs reload on, and its number is the snapshot's last_seq.     *)
(***************************************************************************)

Hear(t) ==
    /\ page[t] = "shown"
    /\ snap[t].seq < project.seq
    /\ \/ load[t] = "no"
       \/ load[t] = "read" /\ loaded[t].seq < project.seq
    /\ Reload(t)
    /\ UNCHANGED <<db, page, offer, orphan, ownDeleted, stray, card, op, lost, acts>>

LoadServed(t) ==
    /\ load[t] = "asked"
    /\ load' = [load EXCEPT ![t] = "read"]
    /\ loaded' = [loaded EXCEPT ![t] = project]
    /\ UNCHANGED <<db, page, snap, offer, orphan, ownDeleted, stray, card, op, lost, acts>>

\* The new snapshot is rendered: cards whose scene is gone stay if they hold
\* unsaved text the tab did not itself ask to delete; the others see their scene.
LoadAnswered(t) ==
    LET new   == loaded[t]
        alive == Live(new)
        gone  == {s \in Live(snap[t]) \ alive : card[t][s].dirty # {} /\ s \notin ownDeleted[t]}
        kept  == (orphan[t] \ alive) \cup gone
    IN /\ load[t] = "read"
       /\ load' = [load EXCEPT ![t] = "no"]
       /\ snap' = [snap EXCEPT ![t] = new]
       /\ ownDeleted' = [ownDeleted EXCEPT ![t] = @ \ alive]
       /\ orphan' = [orphan EXCEPT ![t] = kept]
       /\ card' = [card EXCEPT ![t] =
             [s \in alive \cup kept |->
                 IF s \notin DOMAIN card[t] THEN Fresh(new.scenes[s])
                 ELSE IF s \in alive THEN SceneSeen(card[t][s], new.scenes[s])
                 ELSE card[t][s]]]
       /\ UNCHANGED <<db, page, loaded, offer, stray, op, lost, acts>>

\* A reload that fails puts the error page in the place of everything, and no
\* later answer takes it away: only opening the page again does.
LoadFailed(t) ==
    /\ page[t] = "shown"
    /\ load[t] # "no"
    /\ lost < MaxLost
    /\ lost' = lost + 1
    /\ page' = [page EXCEPT ![t] = "error"]
    /\ load' = [load EXCEPT ![t] = "no"]
    /\ card' = [card EXCEPT ![t] = << >>]
    /\ orphan' = [orphan EXCEPT ![t] = {}]
    /\ ownDeleted' = [ownDeleted EXCEPT ![t] = {}]
    /\ offer' = offer \ {t}
    /\ op' = [op EXCEPT ![t] = NoOp]
    /\ stray' = stray
          \cup {[tab |-> t, scene |-> s, patch |-> card[t][s].patch] :
                  s \in {x \in DOMAIN card[t] : /\ card[t][x].patch.on
                                               /\ card[t][x].patch.answer = "none"}}
          \cup (IF op[t] # NoOp /\ op[t].answer = "none"
                THEN {[tab |-> t, put |-> op[t]]} ELSE {})
    /\ UNCHANGED <<db, snap, loaded, acts>>

Reopen(t) ==
    /\ page[t] = "error"
    /\ page' = [page EXCEPT ![t] = "shown"]
    /\ snap' = [snap EXCEPT ![t] = project]
    /\ card' = [card EXCEPT ![t] = Cards(project)]
    /\ UNCHANGED <<db, load, loaded, offer, orphan, ownDeleted, stray, op, lost, acts>>

(***************************************************************************)

Owner(t) ==
    \/ AddScene(t) \/ Apply(t) \/ Reopen(t)
    \/ \E s \in 1..MaxIds :
          \/ \E f \in Fields, v \in Words : Type(t, s, f, v)
          \/ Save(t, s) \/ SaveMine(t, s) \/ TakeServer(t, s)
          \/ Remove(t, s) \/ Restore(t, s) \/ Dismiss(t, s)

Network(t) ==
    \/ OpServed(t) \/ OpAnswered(t) \/ OpLost(t) \/ LoadFailed(t)
    \/ \E s \in 1..MaxIds : PatchServed(t, s) \/ PatchAnswered(t, s) \/ PatchLost(t, s)

CatchUp(t) == Hear(t) \/ LoadServed(t) \/ LoadAnswered(t)

TabsNext ==
    \/ \E t \in Tabs : Owner(t) \/ Network(t) \/ CatchUp(t)
    \/ \E r \in stray : StrayServed(r)
    \/ OtherWindow

TabsSpec == TabsInit /\ [][TabsNext]_tabVars

\* The stream delivers what is in the journal and a reload is answered.
FairTabsSpec == TabsSpec /\ \A t \in Tabs : WF_tabVars(CatchUp(t))

(***************************************************************************)
(* Properties.                                                             *)
(***************************************************************************)

\* Nobody's saved edit is overwritten or deleted unseen: a tab's request changes a
\* scene, or deletes it, only if the tab had the scene's present content before it --
\* the version its fields were typed over, the version the conflict box compared, or
\* the snapshot the operation was pressed on -- and changes the set only if it had
\* the present set, however late requests, answers and snapshots are.
Knew(view) ==
    /\ view.order = project.order
    /\ \A s \in Live(project) : Content(view.scenes[s]) = Content(project.scenes[s])

KnewScene(patch, s) == Content(patch.over) = Content(project.scenes[s])

PatchDone(t, s) ==
    /\ s \in DOMAIN card[t] \cap DOMAIN card'[t]
    /\ card[t][s].patch.on /\ card'[t][s].patch.on
    /\ card[t][s].patch.answer = "none" /\ card'[t][s].patch.answer = "ok"

OpDone(t) ==
    /\ op[t] # NoOp /\ op'[t] # NoOp
    /\ op[t].answer = "none" /\ op'[t].answer = "ok"

NoLostEdit ==
    [][project' # project =>
          /\ \A t \in Tabs : \A s \in Live(project) :
                PatchDone(t, s) => KnewScene(card[t][s].patch, s)
          /\ \A t \in Tabs : OpDone(t) => Knew(op[t].view)
          /\ \A r \in stray \ stray' :
                IF "patch" \in DOMAIN r THEN KnewScene(r.patch, r.scene) ELSE Knew(r.put.view)
      ]_tabVars

\* An owner's unsaved value goes only when the server has it, or the owner takes
\* the server's, dismisses the card, or deletes its scene -- and, against what
\* sceneDraft.ts says, with the error page and with what is typed into a removed
\* scene's card while it is being restored.
DraftsKept ==
    [][\A t \in Tabs : \A s \in DOMAIN card[t] : \A f \in card[t][s].dirty :
          \/ s \in DOMAIN card'[t] /\ f \in card'[t][s].dirty
          \/ /\ card[t][s].patch.on /\ card[t][s].patch.answer = "ok"
             /\ f \in DOMAIN card[t][s].patch.body
             /\ card[t][s].patch.body[f] = card[t][s].draft[f]
          \/ TakeServer(t, s) \/ Dismiss(t, s)
          \/ s \in ownDeleted[t]
          \/ op[t].kind = "restore" /\ op[t].of = s
          \/ page'[t] = "error"]_tabVars

\* A frame source is a scene that is there and another one, and one derived from
\* the order is the scene before, whatever tabs with older views do to the set.
SourcesFollow == SourcesIn(project)

\* An operation on the set changes nothing in a scene it is not about: a source the
\* owner named stays until the scene it names is deleted, and a derived one stays
\* derived.
ChoicesHold ==
    [][\A s \in Live(project) \cap Live(project)' :
          LET old == project.scenes[s]  new == project'.scenes[s]
          IN /\ old.auto => new.auto
             /\ (~old.auto /\ old.from \in Live(project)') => new.from = old.from /\ ~new.auto
      ]_tabVars

\* What the project is, every open tab comes to show, in the cards too.
TabsCatchUp ==
    \A t \in Tabs :
        []<>(\/ page[t] = "error"
             \/ /\ snap[t] = project
                /\ \A s \in Live(project) : card[t][s].server.edit = project.scenes[s].edit
                                          /\ Content(card[t][s].server) = Content(project.scenes[s]))
=============================================================================
