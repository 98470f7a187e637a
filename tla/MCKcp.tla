-------------------------------- MODULE MCKcp --------------------------------
(* Constants for TLC.  The two endpoints are near and far; a bound that      *)
(* differs between them is given for each.                                   *)
EXTENDS Kcp

CONSTANTS near, far, BytesNear, BytesFar, InFlightNear, InFlightFar

MCMaxWrite    == [e \in Endpoint |-> IF e = near THEN BytesNear ELSE BytesFar]
MCMaxInFlight == [e \in Endpoint |->
                    IF e = near THEN InFlightNear ELSE InFlightFar]
=============================================================================
