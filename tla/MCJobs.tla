--------------------------------- MODULE MCJobs ---------------------------------
(***************************************************************************)
(* The services that a periodic job of Celery beat drives to an end, each  *)
(* checked by itself.  They share no variable: a behaviour looks at one of *)
(* them, its focus, and the others stay as they are, so that their states  *)
(* add up.                                                                 *)
(***************************************************************************)
EXTENDS Promo, ScheduledMessages, CompetitiveDispatch, ExtrasBundle, Excellence

VARIABLE focus

jobsVars ==
    <<promoVars, bulkVars, poolVars, bundleVars, excellenceVars, focus>>

On(service) == focus = service

JobsInit ==
    /\ PromoInit /\ BulkInit /\ PoolInit /\ BundleInit /\ ExcellenceInit
    /\ focus \in {"promo", "bulk", "pool", "bundle", "excellence"}

JobsNext ==
    /\ UNCHANGED focus
    /\ \/ /\ On("promo") /\ PromoNext
          /\ UNCHANGED <<bulkVars, poolVars, bundleVars, excellenceVars>>
       \/ /\ On("bulk") /\ BulkNext
          /\ UNCHANGED <<promoVars, poolVars, bundleVars, excellenceVars>>
       \/ /\ On("pool") /\ PoolNext
          /\ UNCHANGED <<promoVars, bulkVars, bundleVars, excellenceVars>>
       \/ /\ On("bundle") /\ BundleNext
          /\ UNCHANGED <<promoVars, bulkVars, poolVars, excellenceVars>>
       \/ /\ On("excellence") /\ ExcellenceNext
          /\ UNCHANGED <<promoVars, bulkVars, poolVars, bundleVars>>

\* The fairness of each service, while it has the focus
JobsFairness ==
    /\ WF_promoVars(On("promo") /\ Expire)
    /\ WF_promoVars(On("promo") /\ (FinishDiscard \/ LoseDiscard))
    /\ \A s \in Senders : WF_bulkVars(On("bulk") /\ RunBulk(s))
    /\ \A d \in Dispatchers : WF_poolVars(On("pool") /\ RunPool(d))
    /\ WF_bundleVars(On("bundle") /\ ListPortal)
    /\ WF_bundleVars(On("bundle") /\ ExpirePortal)
    /\ WF_excellenceVars(On("excellence") /\ ReadBadge)
    /\ WF_excellenceVars(On("excellence") /\ WriteBadge)

JobsSpec == JobsInit /\ [][JobsNext]_jobsVars /\ JobsFairness
-----------------------------------------------------------------------------
(* Properties *)

\* Each is told once: a message is sent by one sender, which is what the
\* record says, and a provider is invited once per listing of a request; the
\* state that this is told by keeps its types.
OnceEach ==
    /\ BulkTypeOK /\ PoolTypeOK
    /\ SentOnce /\ RecordedAsSent /\ InvitedOncePerListing

\* What the jobs are for comes about: campaigns end, and not before their
\* message was tried; messages are settled, requests reach the providers,
\* portals that are over are shut, badges that are over go.
JobsDone ==
    /\ RunEnds /\ MessageTried /\ BulkSettled /\ PoolReached /\ PortalEnds
    /\ BadgeGoes
=================================================================================
