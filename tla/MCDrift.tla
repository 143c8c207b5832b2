-------------------------------- MODULE MCDrift --------------------------------
(* DriftEngine on small inventories.                                        *)
EXTENDS DriftEngine

CONSTANTS c1, c2

At(kind, name, place, config) ==
  [kind |-> kind, name |-> name, place |-> place, serial |-> 0, config |-> config]

(* One trigger in two regions and another, which is more than the limit of *)
(* two, against the first alone in the second region; a job in both.         *)
MCInventory ==
  [eventarc |-> {{At("eventarc.trigger", "upload", "r1", c1), At("eventarc.trigger", "upload", "r2", c1),
                  At("eventarc.trigger", "audit", "r1", c1)},
                 {At("eventarc.trigger", "upload", "r2", c2)}},
   cloudrun |-> {{At("cloudrun.job", "batch", "r1", c1)}}]
MCComponent == DOMAIN MCInventory

(* A dataset with one table, and with none. *)
DatasetInventory ==
  [bigquery |-> {{At("bigquery.dataset", "sales", "r1", c1), At("bigquery.table", "orders", "r1", c1)},
                 {At("bigquery.dataset", "sales", "r1", c1)}}]
DatasetComponent == DOMAIN DatasetInventory
=============================================================================
