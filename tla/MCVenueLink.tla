---------------------------- MODULE MCVenueLink ----------------------------
(* The venue's wire with a few sockets, one host and few faults.           *)
EXTENDS VenueLink
===========================================================================
