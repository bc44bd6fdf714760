---------------------------- MODULE ControlPlane ----------------------------
(***************************************************************************)
(* The parts of the control plane that share no state, one after another:  *)
(* `part` says which of them moves, the others rest in their initial       *)
(* states.                                                                 *)
(***************************************************************************)
EXTENDS Ingest, Usage, Quota, RateLimit, Assets, Integrations, Cron, Draft, Marketplace

VARIABLE part

Parts == {"ingest", "usage", "quota", "rate", "assets", "integrations", "cron", "draft", "marketplace"}

PartInit ==
    /\ part \in Parts
    /\ Init /\ UsageInit /\ QuotaInit /\ RateInit /\ AssetInit /\ LinkInit /\ CronInit
    /\ DraftInit /\ MarketInit

\* A part moves, the others do not.
Only(name) ==
    /\ part = name /\ UNCHANGED part
    /\ IF name = "ingest" THEN TRUE ELSE UNCHANGED vars
    /\ IF name = "usage" THEN TRUE ELSE UNCHANGED usageVars
    /\ IF name = "quota" THEN TRUE ELSE UNCHANGED quotaVars
    /\ IF name = "rate" THEN TRUE ELSE UNCHANGED rateVars
    /\ IF name = "assets" THEN TRUE ELSE UNCHANGED assetVars
    /\ IF name = "integrations" THEN TRUE ELSE UNCHANGED linkVars
    /\ IF name = "cron" THEN TRUE ELSE UNCHANGED cronVars
    /\ IF name = "draft" THEN TRUE ELSE UNCHANGED draftVars
    /\ IF name = "marketplace" THEN TRUE ELSE UNCHANGED marketVars

PartNext ==
    \/ Only("ingest") /\ Next
    \/ Only("usage") /\ UsageNext
    \/ Only("quota") /\ QuotaNext
    \/ Only("rate") /\ RateNext
    \/ Only("assets") /\ AssetNext
    \/ Only("integrations") /\ LinkNext
    \/ Only("cron") /\ CronNext
    \/ Only("draft") /\ DraftNext
    \/ Only("marketplace") /\ MarketNext

partVars == <<part, vars, usageVars, quotaVars, rateVars, assetVars, linkVars, cronVars, draftVars,
              marketVars>>

PartSpec == PartInit /\ [][PartNext]_partVars

\* The variables of the part that moves have their types.
PartTypeOK ==
    /\ part = "ingest" => TypeOK
    /\ part = "usage" => UsageTypeOK
    /\ part = "quota" => QuotaTypeOK
    /\ part = "rate" => RateTypeOK
    /\ part = "assets" => AssetTypeOK
    /\ part = "integrations" => LinkTypeOK
    /\ part = "cron" => CronTypeOK
    /\ part = "draft" => DraftTypeOK
    /\ part = "marketplace" => MarketTypeOK

=============================================================================
