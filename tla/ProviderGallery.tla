---------------------------- MODULE ProviderGallery ----------------------------
(***************************************************************************)
(* The cover of a provider's profile and the gallery that it is the first  *)
(* picture of (backend/apps/providers).                                    *)
(*                                                                         *)
(* Gallery and profile are separate rows, written by separate statements   *)
(* of requests that hold no lock; each request has loaded the profile when *)
(* it began.  One that dies takes no further step.                         *)
(***************************************************************************)
EXTENDS Naturals, FiniteSets

CONSTANTS
    Uploaders,    \* requests of the provider that overlap
    Limits,       \* numbers of pictures that plans allow
    MaxItems,     \* bound on the rows of the gallery
    MaxPictures   \* bound on the uploads

ASSUME GalleryAssumption ==
    Limits \subseteq Nat /\ MaxItems \in Nat /\ MaxPictures \in Nat

VARIABLES
    limit,       \* pictures that his plan allows
    cover,       \* the picture that the profile shows (0: none)
    gallery,     \* the rows, by their ids: picture (0: no row) and sort_order
    made,        \* rows made so far
    pictures,    \* uploads so far
    clients,     \* what each request does, with the cover that it loaded
    uncovered,   \* an edit took the cover away and left the gallery
    brokenOff,   \* a removal failed before it had renumbered all rows
    together     \* a request has written although another had since it began

galleryVars == <<limit, cover, gallery, made, pictures, clients, uncovered, brokenOff, together>>

ItemIds == 1..MaxItems
NoItem == [picture |-> 0, sort |-> 0]
AtRest == [step |-> "idle", shows |-> 0, item |-> 0, rank |-> 0, todo |-> {}, passed |-> FALSE]

GalleryTypeOK ==
    /\ limit \in Limits
    /\ cover \in 0..MaxPictures /\ pictures \in 0..MaxPictures /\ made \in 0..MaxItems
    /\ gallery \in [ItemIds -> [picture : 0..MaxPictures, sort : 0..MaxItems]]
    /\ uncovered \in BOOLEAN /\ brokenOff \in BOOLEAN /\ together \in BOOLEAN
    /\ \A d \in Uploaders :
         /\ clients[d].step \in {"idle", "view", "viewEmpty", "add", "addEmpty", "count", "insert",
                                 "first", "remove", "list", "renumber", "compare", "show",
                                 "edit", "primary", "replace", "seed"}
         /\ clients[d].shows \in 0..MaxPictures
         /\ clients[d].item \in 0..MaxItems /\ clients[d].rank \in 0..MaxItems
         /\ clients[d].todo \subseteq [item : ItemIds, rank : 0..MaxItems]
         /\ clients[d].passed \in BOOLEAN

GalleryInit ==
    /\ limit \in Limits
    /\ cover = 0 /\ pictures = 0 /\ made = 0
    /\ gallery = [i \in ItemIds |-> NoItem]
    /\ clients = [d \in Uploaders |-> AtRest]
    /\ uncovered = FALSE /\ brokenOff = FALSE /\ together = FALSE
-----------------------------------------------------------------------------

Shown(rows) == {i \in ItemIds : rows[i].picture # 0}

\* order_by("sort_order", "id")
Before(rows, i, j) ==
    rows[i].sort < rows[j].sort \/ (rows[i].sort = rows[j].sort /\ i < j)
RankOf(rows, i) == Cardinality({j \in Shown(rows) : Before(rows, j, i)})
FirstOf(rows) == CHOOSE i \in Shown(rows) : RankOf(rows, i) = 0
PrimaryPicture(rows) == IF Shown(rows) = {} THEN 0 ELSE rows[FirstOf(rows)].picture

\* int(max_sort or -1) + 1: a greatest sort_order of 0 counts as none
NextSort(rows) ==
    IF \A i \in Shown(rows) : rows[i].sort = 0 THEN 0
    ELSE 1 + (CHOOSE m \in 0..MaxItems : /\ \E i \in Shown(rows) : rows[i].sort = m
                                         /\ \A i \in Shown(rows) : rows[i].sort <= m)

Inserted(picture, sort) ==
    /\ made < MaxItems
    /\ made' = made + 1
    /\ gallery' = [gallery EXCEPT ![made + 1] = [picture |-> picture, sort |-> sort]]

Goes(d, step) == clients' = [clients EXCEPT ![d].step = step]
Ends(d) == clients' = [clients EXCEPT ![d] = AtRest]
At(d, step) == [clients[d] EXCEPT !.step = step]

\* A request writes and is then as given; it passes those that have begun
Writes(d, next) ==
    /\ clients' = [e \in Uploaders |-> IF e = d THEN next
                                     ELSE [clients[e] EXCEPT !.passed = clients[e] # AtRest]]
    /\ together' = (together \/ clients[d].passed)

\* A request begins: to view the gallery, to add a picture, to remove one or
\* to edit the profile.  (Bound: none does once one has written from what was
\* passed, since nothing is promised from there on.)
Begin(d) ==
    /\ clients[d] = AtRest /\ ~together
    /\ \E form \in {"view", "add", "remove", "edit"} :
         clients' = [clients EXCEPT ![d].step = form, ![d].shows = cover]
    /\ UNCHANGED <<cover, gallery, made, pictures, uncovered, brokenOff, together>>

\* _ensure_cover_gallery_seeded looks for rows if the profile has a cover,
LookForRows(d) ==
    /\ \/ /\ clients[d].step = "view"
          /\ IF clients[d].shows # 0 /\ Shown(gallery) = {} THEN Goes(d, "viewEmpty") ELSE Ends(d)
       \/ /\ clients[d].step = "add"
          /\ Goes(d, IF clients[d].shows # 0 /\ Shown(gallery) = {} THEN "addEmpty" ELSE "count")
    /\ UNCHANGED <<cover, gallery, made, pictures, uncovered, brokenOff, together>>

\* and makes the first one of the cover
SeedGallery(d) ==
    /\ Inserted(clients[d].shows, 0)
    /\ \/ clients[d].step = "addEmpty" /\ Writes(d, At(d, "count"))
       \/ clients[d].step \in {"viewEmpty", "seed"} /\ Writes(d, AtRest)
    /\ UNCHANGED <<cover, pictures, uncovered, brokenOff>>

\* MyProviderCoverGalleryView.post counts, and takes the next place,
CountRows(d) ==
    /\ clients[d].step = "count"
    /\ IF Cardinality(Shown(gallery)) >= limit THEN Ends(d)
       ELSE clients' = [clients EXCEPT ![d].step = "insert", ![d].rank = NextSort(gallery)]
    /\ UNCHANGED <<cover, gallery, made, pictures, uncovered, brokenOff, together>>

\* makes the row of the new picture,
AddPicture(d) ==
    /\ clients[d].step = "insert"
    /\ pictures < MaxPictures
    /\ pictures' = pictures + 1
    /\ Inserted(pictures + 1, clients[d].rank)
    /\ Writes(d, IF clients[d].shows = 0
                 THEN [At(d, "first") EXCEPT !.shows = pictures + 1] ELSE AtRest)
    /\ UNCHANGED <<cover, uncovered, brokenOff>>

\* and shows it if there was no cover
ShowFirst(d) ==
    /\ clients[d].step = "first"
    /\ cover' = clients[d].shows
    /\ Writes(d, AtRest)
    /\ UNCHANGED <<gallery, made, pictures, uncovered, brokenOff>>

\* MyProviderCoverImageDetailView.delete,
RemovePicture(d) ==
    /\ clients[d].step = "remove"
    /\ \E i \in Shown(gallery) : gallery' = [gallery EXCEPT ![i] = NoItem]
    /\ Writes(d, At(d, "list"))
    /\ UNCHANGED <<cover, made, pictures, uncovered, brokenOff>>

\* which lists what is left,
ListRows(d) ==
    /\ clients[d].step = "list"
    /\ clients' = [clients EXCEPT ![d].step = "renumber",
                     ![d].todo = {t \in [item : Shown(gallery), rank : 0..MaxItems] :
                                    /\ t.rank = RankOf(gallery, t.item)
                                    /\ t.rank # gallery[t.item].sort}]
    /\ UNCHANGED <<cover, gallery, made, pictures, uncovered, brokenOff, together>>

\* renumbers row after row, and fails at one that is gone,
Renumber(d) ==
    /\ clients[d].step = "renumber"
    /\ IF clients[d].todo = {}
       THEN Goes(d, "compare") /\ UNCHANGED <<gallery, brokenOff, together>>
       ELSE \E t \in clients[d].todo :
              /\ \A u \in clients[d].todo : t.rank <= u.rank
              /\ IF gallery[t.item].picture = 0
                 THEN Ends(d) /\ brokenOff' = TRUE /\ UNCHANGED <<gallery, together>>
                 ELSE /\ gallery' = [gallery EXCEPT ![t.item].sort = t.rank]
                      /\ Writes(d, [clients[d] EXCEPT !.todo = @ \ {t}])
                      /\ UNCHANGED brokenOff
    /\ UNCHANGED <<cover, made, pictures, uncovered>>

\* reads which is first now,
ComparePrimary(d) ==
    /\ clients[d].step = "compare"
    /\ IF PrimaryPicture(gallery) = clients[d].shows THEN Ends(d)
       ELSE clients' = [clients EXCEPT ![d].step = "show", ![d].shows = PrimaryPicture(gallery)]
    /\ UNCHANGED <<cover, gallery, made, pictures, uncovered, brokenOff, together>>

\* and shows it
ShowPrimary(d) ==
    /\ clients[d].step = "show"
    /\ cover' = clients[d].shows
    /\ uncovered' = FALSE
    /\ Writes(d, AtRest)
    /\ UNCHANGED <<gallery, made, pictures, brokenOff>>

\* ProviderProfileMeSerializer.update writes the whole row: with a new cover,
NewCover(d) ==
    /\ clients[d].step = "edit"
    /\ pictures < MaxPictures
    /\ pictures' = pictures + 1
    /\ cover' = pictures + 1
    /\ Writes(d, [At(d, "primary") EXCEPT !.shows = pictures + 1])
    /\ uncovered' = FALSE
    /\ UNCHANGED <<gallery, made, brokenOff>>

\* without any, or with the one that it had loaded,
SaveProfileRow(d) ==
    /\ clients[d].step = "edit"
    /\ cover' \in {0, clients[d].shows}
    /\ uncovered' = (uncovered \/ (cover' = 0 /\ Shown(gallery) # {}))
    /\ Writes(d, AtRest)
    /\ UNCHANGED <<gallery, made, pictures, brokenOff>>

\* and a new cover takes the place of the first picture,
ReadPrimary(d) ==
    /\ clients[d].step = "primary"
    /\ IF Shown(gallery) = {} THEN Goes(d, "seed")
       ELSE clients' = [clients EXCEPT ![d].step = "replace", ![d].item = FirstOf(gallery)]
    /\ UNCHANGED <<cover, gallery, made, pictures, uncovered, brokenOff, together>>

\* if it is still there
ReplacePrimary(d) ==
    /\ clients[d].step = "replace"
    /\ LET i == clients[d].item IN
       IF gallery[i].picture = 0 THEN UNCHANGED gallery
       ELSE gallery' = [gallery EXCEPT ![i] = [picture |-> clients[d].shows, sort |-> 0]]
    /\ Writes(d, AtRest)
    /\ UNCHANGED <<cover, made, pictures, uncovered, brokenOff>>

GalleryNext ==
    /\ UNCHANGED limit
    /\ \E d \in Uploaders :
         \/ Begin(d) \/ LookForRows(d) \/ SeedGallery(d) \/ CountRows(d) \/ AddPicture(d)
         \/ ShowFirst(d) \/ RemovePicture(d) \/ ListRows(d) \/ Renumber(d) \/ ComparePrimary(d)
         \/ ShowPrimary(d) \/ NewCover(d) \/ SaveProfileRow(d) \/ ReadPrimary(d)
         \/ ReplacePrimary(d)

GallerySpec == GalleryInit /\ [][GalleryNext]_galleryVars
-----------------------------------------------------------------------------
(* Properties *)

\* When all requests have ended the profile shows the first picture of its
\* gallery, unless one wrote from what another had changed since, or an edit
\* took the cover away and left the gallery.
CoverIsFirst ==
    \/ together \/ uncovered
    \/ \E d \in Uploaders : clients[d] # AtRest
    \/ Shown(gallery) = {}
    \/ cover = PrimaryPicture(gallery)

\* The pictures stay in the order of their upload, although a greatest place
\* of 0 counts as none: a removal that renumbers them passes through others,
\* and keeps one of these only if it fails at a row that another has removed.
UploadOrder ==
    \/ together \/ brokenOff
    \/ \E d \in Uploaders : clients[d].step = "renumber" /\ clients[d].todo # {}
    \/ \A i, j \in Shown(gallery) : i < j => gallery[i].sort <= gallery[j].sort

\* There are not more pictures than the plan allows, unless two requests
\* overlapped; an edit of the profile makes the first one all the same.
GalleryWithinLimit ==
    \/ together
    \/ Cardinality(Shown(gallery)) <= IF limit = 0 THEN 1 ELSE limit
================================================================================
