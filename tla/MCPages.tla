------------------------------- MODULE MCPages -------------------------------
(***************************************************************************)
(* The caches of six pages share no variable.  A behaviour of the product *)
(* is six unrelated behaviours, so each is explored with the others       *)
(* asleep.                                                                 *)
(***************************************************************************)
EXTENDS ModelsPage, ValidatorRows, ConfirmationRates, TimelineCache, Inferences,
        Markets, TLC

CONSTANTS w1, w2, m1, m2

VARIABLE subject   \* the page that is explored

pageVars == <<modelVars, validatorVars, rateVars, timelineVars,
              inferenceVars, marketVars, subject>>

WorkersOfDef == <<{w1, w2}, {w1}>>
InferenceStartDef == <<3, 2, 1>>
AssignedToDef == <<w1, w2, w2>>
MayEndDef == <<{"successful", "expired", "invalidated"}, {"expired"}, {"expired"}>>

\* One member of two models, whose weights the scales do not divide.
NodeWeightsDef == (m1 :> (w1 :> <<5, 5>>)) @@ (m2 :> (w1 :> <<3>>))
MemberWeightDef == (m1 :> (w1 :> 9)) @@ (m2 :> (w1 :> 3))
CoefficientDef == (m1 :> [num |-> 1, den |-> 2]) @@ (m2 :> [num |-> 2, den |-> 3])
ConfirmedWeightDef == w1 :> 5

Subject == {"models", "validators", "confirmation", "rates", "timeline", "inferences",
            "markets"}

PagesInit ==
    /\ subject \in Subject
    /\ ModelsInit /\ ValidatorsInit /\ RatesInit /\ TimelineInit
    /\ InferencesInit /\ MarketsInit
    \* Bound: what varies initially is varied for its own page only.
    /\ subject # "markets" => up = Source
    /\ subject # "rates" => scaleSource = "snapshot"

Asleep(s) ==
    /\ s # "models" => UNCHANGED modelVars
    /\ s \notin {"validators", "confirmation"} => UNCHANGED validatorVars
    /\ s # "rates" => UNCHANGED rateVars
    /\ s # "timeline" => UNCHANGED timelineVars
    /\ s # "inferences" => UNCHANGED inferenceVars
    /\ s # "markets" => UNCHANGED marketVars

PagesNext ==
    /\ UNCHANGED subject
    /\ \/ subject = "models" /\ ModelsNext
       \/ subject = "validators" /\ JailAndHealthNext
       \/ subject = "confirmation" /\ ConfirmationNext
       \/ subject = "rates" /\ RatesNext
       \/ subject = "timeline" /\ TimelineNext
       \/ subject = "inferences" /\ InferencesNext
       \/ subject = "markets" /\ MarketsNext
    /\ Asleep(subject)

\* The pollers of the page that is explored run for ever, and every await
\* ends by a timeout.
PagesFairness ==
    /\ WF_modelVars(subject = "models" /\ PollModels)
    /\ \A c \in Reader : WF_modelVars(subject = "models" /\ ModelStep(c))
    /\ WF_modelVars(subject = "models" /\ RefuseHeight)
    /\ \A w \in {"jail", "health"} :
          WF_validatorVars(subject = "validators" /\ ReadStakeMembers(w))
    /\ WF_validatorVars(subject = "confirmation" /\ ReadStakeMembers("confirmation"))
    /\ \A w \in Watcher :
          WF_validatorVars(subject \in {"validators", "confirmation"} /\ WatchStep(w))
    /\ WF_validatorVars(subject = "validators" /\ MergeStep)
    /\ WF_rateVars(subject = "rates" /\ RatesPollStep)
    /\ WF_rateVars(subject = "rates" /\ PageStep)
    /\ WF_rateVars(subject = "rates" /\ DetailStep)
    /\ WF_inferenceVars(subject = "inferences" /\ PollInferences)
    /\ WF_inferenceVars(subject = "inferences" /\ InferencesStep)
    /\ WF_marketVars(subject = "markets" /\ PollMarkets)
    /\ WF_marketVars(subject = "markets" /\ MarketPollStep)

PagesSpec == PagesInit /\ [][PagesNext]_pageVars /\ PagesFairness

PagesTypeOK ==
    /\ ModelsTypeOK /\ ValidatorsTypeOK /\ RatesTypeOK /\ TimelineTypeOK
    /\ InferencesTypeOK /\ MarketsTypeOK

(***************************************************************************)
(* What is asleep owes nothing.                                            *)
(***************************************************************************)

\* ModelsStayFresh: the page of the running epoch's models follows the chain.
ModelsFollow == subject = "models" => ModelsStayFresh

\* JailAndHealthFollow, RatiosFollow and RatesSettle: so do the rows of the
\* validators, and the rates that pages and details work out with them.
ValidatorsFollow ==
    /\ subject = "validators" => JailAndHealthFollow
    /\ subject = "confirmation" => RatiosFollow
    /\ subject = "rates" => RatesSettle

\* InferencesSettle: the inferences of two epochs end up being the right ones.
InferencesEndRight == subject = "inferences" => InferencesSettle

\* MarketsIndependent: no market's outage stops the row of the other.
MarketsStayApart == subject = "markets" => MarketsIndependent

=============================================================================
