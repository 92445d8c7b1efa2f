------------------------------ MODULE StudioOps ------------------------------
(***************************************************************************)
(* What the operations of the studio's API do to a project (studio/ops.py) *)
(* and what the page sends them (ScenarioStep.tsx): operators only.  A     *)
(* project is what O3 reads of it in one snapshot: the journal's last      *)
(* number, the revision, the order of its live scenes and the scenes.      *)
(*                                                                         *)
(* A scene keeps two of its fields, one of each sort: a change of "text"   *)
(* is a new content revision, a change of "wish" (the seconds asked for,   *)
(* snapped to the same frames) is not; both are edits (И1, И1a).           *)
(***************************************************************************)
EXTENDS Naturals, Sequences, FiniteSets

Fields == {"text", "wish"}

NoScene == 0

Live(p) == DOMAIN p.scenes

Content(scene) ==
    [text |-> scene.text, wish |-> scene.wish,
     kind |-> scene.kind, from |-> scene.from, auto |-> scene.auto]

Draft(scene) == [f \in Fields |-> scene[f]]

Position(order, s) == CHOOSE i \in DOMAIN order : order[i] = s

\* The scene before s in an order, NoScene for the first.
Before(order, s) ==
    LET at == Position(order, s)
    IN IF at = 1 THEN NoScene ELSE order[at - 1]

\* What a frame source given as (kind, scene) is stored as: without a named
\* scene it is derived from the order.
Resolved(kind, named, prev) ==
    [kind |-> kind,
     from |-> IF kind # "prev" THEN NoScene ELSE IF named # NoScene THEN named ELSE prev,
     auto |-> kind = "prev" /\ named = NoScene]

\* A scene's content: the draft fields and the source.
Filled(draft, source) ==
    [text |-> draft.text, wish |-> draft.wish,
     kind |-> source.kind, from |-> source.from, auto |-> source.auto]

\* Mutant: only what makes a new content revision counts as an edit.
StoredRevisions(content, old) ==
    [text |-> content.text, wish |-> content.wish, kind |-> content.kind,
     from |-> content.from, auto |-> content.auto,
     edit |-> old.edit + (IF content = [Content(old) EXCEPT !.wish = content.wish] THEN 0 ELSE 1)]

\* A content stored over an old scene: an edit exactly if something changed.
Stored(content, old) ==
    [text |-> content.text, wish |-> content.wish, kind |-> content.kind,
     from |-> content.from, auto |-> content.auto,
     edit |-> old.edit + (IF content = Content(old) THEN 0 ELSE 1)]

Born(content) ==
    [text |-> content.text, wish |-> content.wish, kind |-> content.kind,
     from |-> content.from, auto |-> content.auto, edit |-> 0]

(* O8, one scene: the fields a card sends, over the version it names. *)

PatchConflict(p, s, expected) == p.scenes[s].edit # expected

Updated(p, s, body) ==
    LET old   == p.scenes[s]
        draft == [f \in Fields |-> IF f \in DOMAIN body THEN body[f] ELSE old[f]]
        new   == Stored(Filled(draft, old), old)
    IN IF new = old
       THEN p
       ELSE [p EXCEPT !.seq = @ + 1, !.scenes[s] = new]

(* O7, the whole set; O26 goes through it. *)

Ids(req) == {req.scenes[i].id : i \in DOMAIN req.scenes}

Kept(req) == {i \in DOMAIN req.scenes : req.scenes[i].id # NoScene}

\* The 409s: the set has changed, a deleted or a kept scene has been edited, or
\* a live scene is in neither list.
PutConflict(p, req) ==
    \/ p.revision # req.revision
    \/ \E d \in req.deleted : d.edit # p.scenes[d.id].edit
    \/ \E i \in Kept(req) : req.scenes[i].edit # p.scenes[req.scenes[i].id].edit
    \/ Live(p) # (Ids(req) \ {NoScene}) \cup {d.id : d \in req.deleted}

\* The ids of the new order: a scene without one gets a fresh one.
Named(req, fresh) ==
    [i \in DOMAIN req.scenes |->
        IF req.scenes[i].id # NoScene THEN req.scenes[i].id
        ELSE fresh + Cardinality({j \in 1..(i - 1) : req.scenes[j].id = NoScene})]

\* The 400: a source that is no other scene of the new set.
PutUnknown(req, fresh) ==
    LET order == Named(req, fresh)
        ids   == {order[i] : i \in DOMAIN order}
    IN \E i \in DOMAIN order :
          LET source == Resolved(req.scenes[i].kind, req.scenes[i].from, Before(order, order[i]))
          IN source.from \notin (ids \ {order[i]}) \cup {NoScene}

\* Mutant: a scene whose fields are the saved ones is left as it is.
ReplacedAsNeeded(p, req, fresh) ==
    LET order == Named(req, fresh)
        content(s) == LET in == req.scenes[Position(order, s)]
                      IN Filled(in, Resolved(in.kind, in.from, Before(order, s)))
    IN [seq |-> p.seq + 1, revision |-> p.revision + 1, order |-> order,
        scenes |-> [s \in {order[i] : i \in DOMAIN order} |->
                        IF s \notin Live(p) THEN Born(content(s))
                        ELSE IF Draft(req.scenes[Position(order, s)]) = Draft(p.scenes[s]) THEN p.scenes[s]
                        ELSE Stored(content(s), p.scenes[s])]]

\* The new set: each scene as it was sent, its source resolved in the new order.
Replaced(p, req, fresh) ==
    LET order == Named(req, fresh)
        content(s) == LET in == req.scenes[Position(order, s)]
                      IN Filled(in, Resolved(in.kind, in.from, Before(order, s)))
    IN [seq |-> p.seq + 1, revision |-> p.revision + 1, order |-> order,
        scenes |-> [s \in {order[i] : i \in DOMAIN order} |->
                        IF s \in Live(p) THEN Stored(content(s), p.scenes[s])
                                         ELSE Born(content(s))]]

(* What the page sends: every saved scene as the page last read it. *)

\* Mutant: no copy names its source, the server derives it.
CopyOfDerived(p, s) ==
    LET scene == p.scenes[s]
    IN [id |-> s, edit |-> scene.edit, text |-> scene.text, wish |-> scene.wish,
        kind |-> scene.kind, from |-> NoScene]

\* A derived source goes without its scene: the server derives it again.
CopyOf(p, s) ==
    LET scene == p.scenes[s]
    IN [id |-> s, edit |-> scene.edit, text |-> scene.text, wish |-> scene.wish,
        kind |-> scene.kind, from |-> IF scene.auto THEN NoScene ELSE scene.from]

Copies(p, order) == [i \in DOMAIN order |-> CopyOf(p, order[i])]

Gone(p, ids) == {[id |-> s, edit |-> p.scenes[s].edit] : s \in ids}

NewScene(p, draft) ==
    [id |-> NoScene, edit |-> 0, text |-> draft.text, wish |-> draft.wish,
     kind |-> IF p.order = << >> THEN "none" ELSE "prev", from |-> NoScene]

\* «+ Сцена» and «Вернуть как новую сцену»: one more scene at the end.
Appended(p, draft) ==
    [revision |-> p.revision, deleted |-> {},
     scenes |-> Append(Copies(p, p.order), NewScene(p, draft))]

\* «Удалить сцену»: what named the removed scene as its source now names the
\* scene before it.
Without(p, s) ==
    LET at == Position(p.order, s)
        others == [i \in 1..(Len(p.order) - 1) |-> p.order[IF i < at THEN i ELSE i + 1]]
        relinked(x) == LET copy == CopyOf(p, x)
                       IN IF copy.kind = "prev" /\ copy.from = s
                          THEN [copy EXCEPT !.from = Before(p.order, s)]
                          ELSE copy
    IN [revision |-> p.revision, deleted |-> Gone(p, {s}),
        scenes |-> [i \in DOMAIN others |-> relinked(others[i])]]

\* «Применить»: the proposal's scenes for all of the page's.
Applied(p, draft) ==
    [revision |-> p.revision, deleted |-> Gone(p, Live(p)),
     scenes |-> <<[NewScene(p, draft) EXCEPT !.kind = "none"]>>]
=============================================================================
