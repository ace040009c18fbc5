---------------------------- MODULE MCNodeStart ----------------------------
(* A table of four parameters with the orders and defaults of the code's: two
   addresses (one the manager's), the amounts of the fallbacks, which have a default
   and read as empty when they are not given, and the delay of the gas price.  A
   number with a default, like an interval, is read like the amounts but for never
   being empty.                                                                  *)
EXTENDS MainLoop

Registered == "configuration_blockchain_default"
Priorities == <<Registered, Registered, Registered, "configuration_default_blockchain">>
=============================================================================
