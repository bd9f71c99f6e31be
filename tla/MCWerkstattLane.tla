--------------------------- MODULE MCWerkstattLane ---------------------------
(***************************************************************************)
(* Manager ids a and b.  a1 and a2 are registrations of a; a2 leads to the *)
(* manager state sa2, which a configuration may identify with sa.  A       *)
(* configuration that identifies a2 with a1 has no re-registration.        *)
(***************************************************************************)
EXTENDS WerkstattLane

CONSTANTS a, b, a1, a2, b1, sa, sa2, sb

MCId == {a, b}
MCRegistration == {a1, a2, b1}
MCIdOf == [r \in MCRegistration |-> IF r = b1 THEN b ELSE a]
MCStoreOf == [r \in MCRegistration |->
    CASE r = a1 -> sa [] r = b1 -> sb [] OTHER -> sa2]
=============================================================================
