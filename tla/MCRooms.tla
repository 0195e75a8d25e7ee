---- MODULE MCRooms ----
(* Small instances of ChatRooms. *)
EXTENDS ChatRooms
CONSTANTS c1, c2, u1
====
