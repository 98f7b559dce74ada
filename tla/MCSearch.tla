------------------------------ MODULE MCSearch ------------------------------
(***************************************************************************)
(* An instance of Search.  Account u1 is called ann, with the namesakes    *)
(* u3 and u4; account u2 has a name like those made up from an id.  Some   *)
(* requests vary what the operator asks for, with one server to walk; the  *)
(* others vary where the servers come from, for one id.                    *)
(***************************************************************************)
EXTENDS Search

CONSTANTS u1, u2, u3, u4, bad, ann, Ann, wide, user1, user2, user3, user4, unknown, alias, bob, anna, c1, c2, c3

MCNormOf == [n \in Names |-> IF n \in {Ann, wide} THEN ann ELSE n]
MCFoldOf == [n \in Names |-> IF n = Ann THEN ann ELSE n]
MCAlike == {<<anna, ann>>, <<ann, ann>>, <<unknown, unknown>>, <<bob, bob>>}
MCAnswers == ({ann, Ann, wide, anna} \X {ann, Ann}) \cup {<<n, n>> : n \in Names}
MCMentions == [n \in Names |-> {MCNormOf[n], alias}]
MCPlaceholderOf == (u1 :> user1) @@ (u2 :> user2) @@ (u3 :> user3) @@ (u4 :> user4)

MCAccounts ==
  {[id |-> u1, username |-> ann, display |-> anna],
   [id |-> u2, username |-> user3, display |-> bob]}

Person(id, username, display, nick) ==
  [id |-> id, username |-> username, display |-> display, nick |-> nick]

MCPeople ==
  {Person(u1, ann, NoName, NoName), Person(u2, user3, bob, NoName), Person(u3, Ann, NoName, NoName),
   Person(u3, bob, NoName, anna), Person(u4, wide, unknown, NoName), Person(u4, alias, NoName, NoName)}

\* Whom to look for.
Persons ==
  [id : {NoID, u1, u2, bad}, name : {NoName, ann, bob, Ann}, yes : BOOLEAN,
   names : {0}, file : {<<>>}, direct : {<<c1>>}, tag : {FALSE}, limit : {1}]

\* Where to look.
Places ==
  [id : {u4}, name : {NoName}, yes : {TRUE},
   names : 0 .. 2, file : {<<>>, <<c1, c1>>}, direct : {<<>>, <<c1, c2>>},
   tag : BOOLEAN, limit : 1 .. 3]

MCRequests == Persons \cup Places

MCPages == UNION {[1 .. n -> Codes] : n \in 1 .. 2}
=============================================================================
