---------------------------- MODULE MCNarration ----------------------------
(***************************************************************************)
(* An instance of Narration for TLC.  The messages make every kind of      *)
(* meeting of two requests possible: an exact duplicate, a retry that lost *)
(* its X-Request-ID header, a key reused for another text, a request       *)
(* identifier reused under another key, and rivals for one version.        *)
(***************************************************************************)
EXTENDS Narration, TLC

CONSTANTS h1, h2, k1, k2, k3, r1, b1, b2

Msg(k, r, e, b) == [key |-> k, header |-> r, expected |-> e, body |-> b]

MCMessages ==
  { Msg(k1, None, 0, Opening),
    Msg(k2, r1, 1, b1),
    Msg(k2, None, 1, b1),
    Msg(k2, r1, 1, b2),
    Msg(k3, r1, 1, b1),
    Msg(k3, None, 0, b1) }
=============================================================================
