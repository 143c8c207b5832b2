-------------------------------- MODULE MCGateway --------------------------------
(* Gateway with project IDs and aliases that share words, in small letters    *)
(* and in capitals, configured well and badly, before and after a restart.    *)
EXTENDS Gateway

CONSTANTS ann, bob

Shop == <<Small("shop")>>
ShopEU == <<Small("shop"), Small("eu")>>
Prod == <<Small("prod")>>
PROD == <<Capital("prod")>>
Test == <<Small("test")>>
Billing == <<Small("shop"), Small("billing")>>
MCPlaceholder == <<Small("your-project")>>
MCHiddenID == <<Capital("[gcp_project_id]")>>
MCCostID == <<Capital("[cost_project_id]")>>

Open0(environments) ==
  [mode |-> "disabled", loopback |-> TRUE, allowed |-> {}, allowAny |-> FALSE,
   environments |-> environments, mask |-> FALSE, costProjects |-> {}]
Closed(environments, allowed) ==
  [mode |-> "required", loopback |-> FALSE, allowed |-> allowed, allowAny |-> FALSE,
   environments |-> environments, mask |-> FALSE, costProjects |-> {}]

Two(a, b) == <<Environment(Shop, a, TRUE), Environment(ShopEU, b, FALSE)>>

MCSettings ==
  {[Open0(<<Environment(Shop, Blank, FALSE)>>) EXCEPT !.costProjects = {Shop}],
   [Closed(Two(PROD, Test), {ann}) EXCEPT !.costProjects = {Shop, Billing}],
   Closed(Two(Prod, PROD), {ann, bob}),
   Closed(Two(ShopEU, Test), {ann}),
   Closed(Two(Test, <<Small("old"), Small("shop")>>), {ann}),
   Closed(Two(Prod, Test), {}),
   [Closed(Two(Prod, Test), {}) EXCEPT !.allowAny = TRUE],
   [Open0(<<Environment(Shop, Blank, TRUE)>>) EXCEPT !.mask = TRUE, !.mode = "required"]}

MCSelectors == {Blank, Shop, ShopEU, Prod, PROD, MCPlaceholder, <<Small("unknown")>>}
=============================================================================
