------------------------- MODULE MCNamedPipeProtocol -------------------------
(***************************************************************************)
(* The protocol on small instances.                                        *)
(***************************************************************************)
EXTENDS NamedPipeProtocolProps

CONSTANTS i1, i2, r1, s1, s2

\* Two inbound requests, one stream each; one stream declares its length.
InStreams == [m \in {i1, i2} |-> IF m = i1 THEN {s1} ELSE {s2}]
InLengths == [s \in {s1, s2} |-> IF s = s1 THEN 2 ELSE None]

\* An outbound request; its response has a stream of declared length.
OutStreams == [m \in {r1} |-> {s1}]
OutLengths == [s \in {s1} |-> 1]

=============================================================================
