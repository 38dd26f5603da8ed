------------------------------- MODULE MCServices -------------------------------
(***************************************************************************)
(* The services around a request, each checked by itself.  They share no   *)
(* variable: a behaviour looks at one of them, its focus, and the others   *)
(* stay as they are, so that the states of the services add up.            *)
(***************************************************************************)
EXTENDS Billing, ExtraCredits, ExtrasBundle, Loyalty, Excellence, Reviews, HelpDesk, Conversations,
        ProviderProfile, ProviderGallery, Spotlights

VARIABLE focus

moneyVars == <<billingVars, creditVars, bundleVars, loyaltyVars>>
peopleVars == <<excellenceVars, reviewVars, deskVars, talkVars>>
showVars == <<profileVars, galleryVars, spotlightVars>>
servicesVars == <<moneyVars, peopleVars, showVars, focus>>

On(service) == focus = service

\* A service starts in every way; the others look past it
ServicesInit ==
    /\ BillingInit /\ CreditsInit /\ BundleInit /\ LoyaltyInit /\ ExcellenceInit /\ ReviewsInit
    /\ DeskInit /\ TalkInit /\ ProfileInit /\ GalleryInit /\ SpotlightsInit
    /\ focus \in {"billing", "credits", "bundle", "loyalty", "excellence", "reviews", "desk", "talk",
                  "profile", "gallery", "spotlights"}
    /\ On("billing") \/ (invoice.total = 1 /\ invoice.status = "pending")
    /\ On("profile") \/ allowed = {}
    /\ On("gallery") \/ limit = 1
    /\ On("spotlights") \/ quota = 1

ServicesNext ==
    /\ UNCHANGED focus
    /\ \/ /\ On("billing") /\ BillingNext
          /\ UNCHANGED <<creditVars, bundleVars, loyaltyVars, peopleVars, showVars>>
       \/ /\ On("credits") /\ CreditsNext
          /\ UNCHANGED <<billingVars, bundleVars, loyaltyVars, peopleVars, showVars>>
       \/ /\ On("bundle") /\ BundleNext
          /\ UNCHANGED <<billingVars, creditVars, loyaltyVars, peopleVars, showVars>>
       \/ /\ On("loyalty") /\ LoyaltyNext
          /\ UNCHANGED <<billingVars, creditVars, bundleVars, peopleVars, showVars>>
       \/ /\ On("excellence") /\ ExcellenceNext
          /\ UNCHANGED <<moneyVars, reviewVars, deskVars, talkVars, showVars>>
       \/ /\ On("reviews") /\ ReviewsNext
          /\ UNCHANGED <<moneyVars, excellenceVars, deskVars, talkVars, showVars>>
       \/ /\ On("desk") /\ DeskNext
          /\ UNCHANGED <<moneyVars, excellenceVars, reviewVars, talkVars, showVars>>
       \/ /\ On("talk") /\ TalkNext
          /\ UNCHANGED <<moneyVars, excellenceVars, reviewVars, deskVars, showVars>>
       \/ /\ On("profile") /\ ProfileNext
          /\ UNCHANGED <<moneyVars, peopleVars, galleryVars, spotlightVars>>
       \/ /\ On("gallery") /\ GalleryNext
          /\ UNCHANGED <<moneyVars, peopleVars, profileVars, spotlightVars>>
       \/ /\ On("spotlights") /\ SpotlightsNext
          /\ UNCHANGED <<moneyVars, peopleVars, profileVars, galleryVars>>

ServicesSpec == ServicesInit /\ [][ServicesNext]_servicesVars
-----------------------------------------------------------------------------
(* Properties *)

\* Every service keeps the types of its state (those off focus stay as they
\* begin).
ServicesTypeOK ==
    /\ On("billing") => BillingTypeOK
    /\ On("credits") => CreditsTypeOK
    /\ On("bundle") => BundleTypeOK
    /\ On("loyalty") => LoyaltyTypeOK
    /\ On("excellence") => ExcellenceTypeOK
    /\ On("reviews") => ReviewsTypeOK
    /\ On("desk") => DeskTypeOK
    /\ On("talk") => TalkTypeOK
    /\ On("profile") => ProfileTypeOK
    /\ On("gallery") => GalleryTypeOK
    /\ On("spotlights") => SpotlightsTypeOK

\* What is used was paid for and what is paid for can be used (extras); what
\* others see of a ticket, of a thread and of a provider is what it is
\* (support, messaging, providers).
ServedAndShown ==
    /\ On("credits") => UsedPaid /\ CreditsReachable
    /\ On("bundle") => PortalServed
    /\ On("desk") => TicketMirrored
    /\ On("talk") => NothingNewRemoved
    /\ On("profile") => UrgentShown /\ MarkShown
    /\ On("gallery") => CoverIsFirst /\ UploadOrder /\ GalleryWithinLimit
    /\ On("spotlights") => QuotaKept

\* No step takes back what stands: a payment in force, a closed request for
\* extras, an award, a closed ticket, a moderator's decision, a block, the
\* newest spotlights.
NothingTakenBack ==
    /\ ReversedFromOutside /\ PaymentStands /\ ClosedStays /\ AwardStands
    /\ ClosedFinal /\ DecisionStays /\ BlockRespected /\ NewestStay
=================================================================================
