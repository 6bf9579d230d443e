---------------------------- MODULE MCHttpClient ----------------------------
(* Three callers, two sources: the mirror takes one request at a time, the *)
(* primary as many as the process does.  So a request may wait for its     *)
(* source, or hold its source's permit and wait for the global one.        *)
EXTENDS HttpClient

CONSTANTS w1, w2, w3, mirror, primary

MCCallers == {w1, w2, w3}
MCSources == {mirror, primary}
MCSourceLimit == [s \in MCSources |-> IF s = mirror THEN 1 ELSE 2]
=============================================================================
