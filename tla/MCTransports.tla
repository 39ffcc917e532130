---------------------------- MODULE MCTransports -----------------------------
(* Values for TLC's run of Transports.tla. *)
EXTENDS Transports

\* Success, another success, a client's error and a server's.
MCCodes == {200, 204, 404, 503}

\* These, none, and what is no status at all.
MCInts == MCCodes \union {0, -1}

=============================================================================
