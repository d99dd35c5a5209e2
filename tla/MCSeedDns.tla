------------------------------ MODULE MCSeedDns ------------------------------
(* A small instance of SeedDns: two IPv4 addresses, an IPv6 address and a  *)
(* name; the timer's run and one by hand.                                  *)
EXTENDS SeedDns

CONSTANTS a, b, six, onion

MCStarts == [relay : {{a}, {a, b, six}}, main : {{}, {b, onion}}]
=============================================================================
