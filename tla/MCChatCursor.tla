---------------------------- MODULE MCChatCursor ----------------------------
(* Instance of ChatCursor for TLC: two people, one of whom also gives commands. *)
EXTENDS ChatCursor

CONSTANTS s1, s2

MCSenders == {s1, s2}
MCArrivals ==
    [kind : {"direct"}, sender : MCSenders]
        \cup [kind : {"ambient", "command", "bot"}, sender : {s1}]
=============================================================================
