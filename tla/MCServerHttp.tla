---------------------------- MODULE MCServerHttp ----------------------------
(* Two threads, two connections, and requests that are answered in three     *)
(* ways or do not parse.                                                     *)
EXTENDS ServerHttp

Request(path, payload, keep_alive) ==
    [method |-> "GET", path |-> path, payload |-> payload, keep_alive |-> keep_alive]

CONSTANTS busy, other

RequestsOf ==
    [s \in Sessions |->
        IF s = busy
        THEN {Request("/simulate", "encounter", TRUE), Request("/simulate", "failing", FALSE)}
        ELSE {Request("/health", "none", TRUE), Request("malformed", "none", TRUE)}]
RequestBounds == [s \in Sessions |-> IF s = busy THEN 2 ELSE 1]
=============================================================================
