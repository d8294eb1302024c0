----------------------------- MODULE MCInbound -----------------------------
(* Two messages.  A mix of kinds is a run of its own; these have each kind *)
(* beside a message that somebody else delivers.                           *)
EXTENDS Inbound

MCMixes == {<<"pull", "pull">>, <<"push", "push">>, <<"press", "push">>}
=============================================================================
