---------------------------- MODULE MCDeployment ----------------------------
(***************************************************************************)
(* Both gatekeepers and subsidies; neither EAS nor subsidies; the latter   *)
(* with the voice credit proxy switched off.                               *)
(***************************************************************************)
EXTENDS Deployment

Config(gatekeepers, gatekeeper, subsidy, voiceCredits) ==
  [gatekeepers |-> gatekeepers, gatekeeper |-> gatekeeper,
   subsidyKeys |-> subsidy, subsidyPolls |-> subsidy, voiceCredits |-> voiceCredits]

MCConfigs ==
  {Config({"FreeForAllGatekeeper", "EASGatekeeper"}, "EASGatekeeper", TRUE, TRUE),
   Config({"FreeForAllGatekeeper"}, "FreeForAllGatekeeper", FALSE, TRUE),
   Config({"FreeForAllGatekeeper"}, "FreeForAllGatekeeper", FALSE, FALSE)}
=============================================================================
