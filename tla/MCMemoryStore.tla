---------------------------- MODULE MCMemoryStore ----------------------------
(* MemoryStore with two users of one tenant and one of them known to a      *)
(* second tenant too, so that both the tenant and the user can be mixed up. *)
(* 2 and 3 are two spellings of one name.                                   *)
EXTENDS MemoryStore

MCOwners == {<<"t1", "u1">>, <<"t1", "u2">>, <<"t2", "u1">>}
MCFold == [e \in Entities |-> IF e = 3 THEN 2 ELSE e]
MCStored == {<<1, 2, 3>>, <<2, 3>>}
MCAsked == {<<1>>}
=============================================================================
