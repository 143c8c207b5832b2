-------------------------------- MODULE MCTools --------------------------------
(* ToolServer started with all modules, with none, and with each one alone,  *)
(* every switch on, and every switch off; billing exports are queried in     *)
(* the server's own project or in another.                                   *)
EXTENDS ToolServer

Start0(names, on) ==
  [all |-> FALSE, names |-> names, recommender |-> on, cost |-> on, export |-> on,
   ownProject |-> "cost" \in names]
MCSettings ==
  {Start0({module}, on) : module \in AllModules \cup {"recommender_export", "typing error"}, on \in BOOLEAN}
    \cup {Start0({}, TRUE)}
    \cup {[Start0({}, on) EXCEPT !.all = TRUE, !.ownProject = own] : on, own \in BOOLEAN}
=============================================================================
