----------------------------- MODULE MCAIRouter -----------------------------
(***************************************************************************)
(* Two providers and two requests at a time.  A request lasts two units at *)
(* most; probe window and quarantines are a little longer.                 *)
(***************************************************************************)
EXTENDS AIRouter

CONSTANTS p1, p2, r1, r2

MCProviders == {p1, p2}
MCErrors    == {"credit", "rate", "other"}
MCKeys      == {{p1}, {p1, p2}}
MCRequests  == {r1, r2}
=============================================================================
