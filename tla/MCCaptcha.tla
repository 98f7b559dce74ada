----------------------------- MODULE MCCaptcha -----------------------------
(* Two challenges: the first leaves its terminal goroutine, its page or its  *)
(* handler behind, the second meets them.  Three lines: one for each         *)
(* goroutine, and one that nobody reads.                                     *)
EXTENDS CaptchaBridge
=============================================================================
