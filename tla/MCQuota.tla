------------------------------- MODULE MCQuota -------------------------------
(* Clean behaviours and behaviours with every race but the lost edit, in   *)
(* one state space.                                                        *)
EXTENDS Quota

MCRaceSets == {{}, {"recount", "cancel", "collection"}}
CollectionOnly == {{"collection"}}

===============================================================================
