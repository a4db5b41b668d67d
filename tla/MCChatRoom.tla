----------------------------- MODULE MCChatRoom -----------------------------
(* Three clients for a room of two; two of them share a bucket of the      *)
(* table, and one has two lines to say.                                    *)
EXTENDS ChatRoom, TLC

CONSTANTS c1, c2, c3

MCClients == {c1, c2, c3}
MCHash == c1 :> 0 @@ c2 :> 0 @@ c3 :> 1
MCMaxLines == c1 :> 2 @@ c2 :> 1 @@ c3 :> 1
============================================================================
