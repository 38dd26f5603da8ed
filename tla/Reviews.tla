-------------------------------- MODULE Reviews --------------------------------
(***************************************************************************)
(* The reviews of one provider (backend/apps/reviews): the rating on his   *)
(* profile, which is computed again when a review is saved or deleted, and *)
(* the mirror of each review among the unified requests.                   *)
(*                                                                         *)
(* A process that saves a review reads the aggregate after its commit,     *)
(* writes it to the profile, and then mirrors its own copy of the review.  *)
(* Nothing is locked, a failure of the rating is logged and forgotten, and *)
(* the process may die.  The rating (average and count) is given here by   *)
(* the set of the reviews that count.                                      *)
(***************************************************************************)
EXTENDS Naturals, FiniteSets

CONSTANTS
    ReviewIds,   \* the completed requests that may be reviewed
    Editors      \* processes that save reviews

VARIABLES
    reviews,      \* moderation_status of the review of each request
    reviewMirror, \* status of its unified request
    rated,        \* the reviews in the rating on the profile
    editors,      \* what each process does, with its copy and the aggregate it has read
    ratingPassed, \* a review was saved between an aggregate of another process and its write
    ratingLost,   \* a rating was not written
    mirrorPassed, \* two moderators had one review at once
    mirrorLost    \* a review was not mirrored

reviewVars ==
    <<reviews, reviewMirror, rated, editors, ratingPassed, ratingLost, mirrorPassed, mirrorLost>>

NotEditing == [step |-> "idle", of |-> {}, status |-> "none", want |-> "none", seen |-> {}]

\* hidden, or rejected, which differs in the notification only
Statuses == {"approved", "hidden"}

ReviewsTypeOK ==
    /\ reviews \in [ReviewIds -> Statuses \cup {"none", "gone"}]
    /\ reviewMirror \in [ReviewIds -> {"none", "new", "closed"}]
    /\ rated \subseteq ReviewIds
    /\ editors \in [Editors -> [step : {"idle", "opened", "saved", "read", "rated"},
                                of : SUBSET ReviewIds, status : Statuses \cup {"none", "gone"},
                                want : Statuses \cup {"none"}, seen : SUBSET ReviewIds]]
    /\ ratingPassed \in BOOLEAN /\ ratingLost \in BOOLEAN
    /\ mirrorPassed \in BOOLEAN /\ mirrorLost \in BOOLEAN

ReviewsInit ==
    /\ reviews = [r \in ReviewIds |-> "none"]
    /\ reviewMirror = [r \in ReviewIds |-> "none"]
    /\ rated = {}
    /\ editors = [e \in Editors |-> NotEditing]
    /\ ratingPassed = FALSE /\ ratingLost = FALSE /\ mirrorPassed = FALSE /\ mirrorLost = FALSE
-----------------------------------------------------------------------------
Counted == {r \in ReviewIds : reviews[r] = "approved"}

EditorAt(e, step) == editors[e].step = step

\* A save: the row becomes as given, and whoever has read the aggregate and
\* not written it is passed
Saved(e, r, status) ==
    /\ reviews' = [reviews EXCEPT ![r] = status]
    /\ ratingPassed' = (ratingPassed \/ \E f \in Editors \ {e} : EditorAt(f, "read"))

NewStatus == "approved"

\* CreateReviewView; a second review of a request is refused by the database
CreateReview(e, r) ==
    /\ editors[e] = NotEditing /\ reviews[r] = "none"
    /\ Saved(e, r, NewStatus)
    /\ editors' = [editors EXCEPT ![e] = [NotEditing EXCEPT !.step = "saved", !.of = {r},
                                                            !.status = NewStatus]]
    /\ UNCHANGED <<reviewMirror, rated, ratingLost, mirrorPassed, mirrorLost>>

\* The request goes, and its review with it
DeleteReview(e, r) ==
    /\ editors[e] = NotEditing /\ reviews[r] \in Statuses
    /\ Saved(e, r, "gone")
    /\ editors' = [editors EXCEPT ![e] = [NotEditing EXCEPT !.step = "saved"]]
    /\ UNCHANGED <<reviewMirror, rated, ratingLost, mirrorPassed, mirrorLost>>

\* _content_apply_review_moderation: the staff reads the review,
OpenReview(e, r, want) ==
    /\ editors[e] = NotEditing /\ reviews[r] \in Statuses
    /\ editors' = [editors EXCEPT ![e] = [NotEditing EXCEPT !.step = "opened", !.of = {r},
                                                            !.status = reviews[r], !.want = want]]
    /\ mirrorPassed' = (mirrorPassed \/ \E f \in Editors : r \in editors[f].of)
    /\ UNCHANGED <<reviews, reviewMirror, rated, ratingPassed, ratingLost, mirrorLost>>

\* and saves it, with the status if it is another than the one read; a
\* review that is gone cannot be saved
ModerateReview(e, r) ==
    /\ EditorAt(e, "opened") /\ r \in editors[e].of
    /\ IF reviews[r] = "gone"
       THEN editors' = [editors EXCEPT ![e] = NotEditing] /\ UNCHANGED <<reviews, ratingPassed>>
       ELSE LET want == editors[e].want IN
            /\ Saved(e, r, IF want = editors[e].status THEN reviews[r] ELSE want)
            /\ editors' = [editors EXCEPT ![e] = [NotEditing EXCEPT !.step = "saved", !.of = {r},
                                                                    !.status = want]]
    /\ UNCHANGED <<reviewMirror, rated, ratingLost, mirrorPassed, mirrorLost>>

\* refresh_provider_rating, after the commit, reads (calculate_provider_rating)
ReadAggregate(e) ==
    /\ EditorAt(e, "saved")
    /\ editors' = [editors EXCEPT ![e].step = "read", ![e].seen = Counted]
    /\ UNCHANGED <<reviews, reviewMirror, rated, ratingPassed, ratingLost, mirrorPassed, mirrorLost>>

\* Mutation: the rating gains reviews, and does not lose them
RatedMore(seen) == rated \cup seen

RatedBy(seen) == seen

AfterRating(e) ==
    editors' = [editors EXCEPT ![e] =
      IF editors[e].of = {} THEN NotEditing ELSE [@ EXCEPT !.step = "rated", !.seen = {}]]

\* and writes
WriteRating(e) ==
    /\ EditorAt(e, "read")
    /\ rated' = RatedBy(editors[e].seen)
    /\ AfterRating(e)
    /\ UNCHANGED <<reviews, reviewMirror, ratingPassed, ratingLost, mirrorPassed, mirrorLost>>

\* A failure is logged
FailRating(e) ==
    /\ EditorAt(e, "saved") \/ EditorAt(e, "read")
    /\ AfterRating(e)
    /\ ratingLost' = TRUE
    /\ UNCHANGED <<reviews, reviewMirror, rated, ratingPassed, mirrorPassed, mirrorLost>>

\* _review_status_to_unified
Mirrored(status) == IF status = "hidden" THEN "closed" ELSE "new"

\* sync_review_to_unified, from the process' copy
MirrorReview(e, r) ==
    /\ EditorAt(e, "rated") /\ r \in editors[e].of
    /\ reviewMirror' = [reviewMirror EXCEPT ![r] = Mirrored(editors[e].status)]
    /\ editors' = [editors EXCEPT ![e] = NotEditing]
    /\ UNCHANGED <<reviews, rated, ratingPassed, ratingLost, mirrorPassed, mirrorLost>>

DieEditing(e) ==
    /\ editors[e] # NotEditing
    /\ editors' = [editors EXCEPT ![e] = NotEditing]
    /\ ratingLost' = (ratingLost \/ EditorAt(e, "saved") \/ EditorAt(e, "read"))
    /\ mirrorLost' = (mirrorLost \/ (~EditorAt(e, "opened") /\ editors[e].of # {}))
    /\ UNCHANGED <<reviews, reviewMirror, rated, ratingPassed, mirrorPassed>>

ReviewsNext ==
    \E e \in Editors :
      \/ ReadAggregate(e) \/ WriteRating(e) \/ FailRating(e) \/ DieEditing(e)
      \/ \E r \in ReviewIds :
           \/ CreateReview(e, r) \/ DeleteReview(e, r)
           \/ \E want \in Statuses : OpenReview(e, r, want)
           \/ ModerateReview(e, r) \/ MirrorReview(e, r)

ReviewsSpec == ReviewsInit /\ [][ReviewsNext]_reviewVars
-----------------------------------------------------------------------------
(* Properties *)

NoRatingUnderWay == \A e \in Editors : ~EditorAt(e, "saved") /\ ~EditorAt(e, "read")

\* Once nobody is about to write it, the rating on the profile is that of
\* the approved reviews, unless a review was saved between the aggregate of
\* another process and its write, or a write was lost.
RatingTrue == NoRatingUnderWay => ratingPassed \/ ratingLost \/ rated = Counted

\* Once nobody works on it, the unified request of a review is closed just
\* if the review does not show, unless two moderators had it at once or a
\* process died on it.
ReviewMirrored ==
    \A r \in ReviewIds :
      reviews[r] \in Statuses /\ (\A e \in Editors : r \notin editors[e].of) =>
        mirrorPassed \/ mirrorLost \/ (reviewMirror[r] = "closed" <=> reviews[r] # "approved")

\* What others see of the reviews is what they are.
ReviewsSound == RatingTrue /\ ReviewMirrored
==================================================================================
