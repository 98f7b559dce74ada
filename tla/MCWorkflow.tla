----------------------------- MODULE MCWorkflow -----------------------------
(***************************************************************************)
(* TLC instances of the workflow: guild g1 with two invites, one of them   *)
(* listed on Disboard under the guild's id; target u1 and a namesake u2.   *)
(***************************************************************************)
EXTENDS WorkflowProps, TLC

CONSTANTS c1, c2, g1, g2, k1, k2, i1, i2, m1, m2, u1, u2, a1, a2, n1, r1, r2

MCIdentUser == (i1 :> u1) @@ (i2 :> u2)
MCOneIdentUser == i2 :> u2
MCOneMessageAuthor == m2 :> u2
MCNone == <<>>

MCCandidateReasons == {"username_exact"}

MCInviteGuild == (c1 :> g1) @@ (c2 :> g1)
MCListedKey   == (c1 :> k1) @@ (c2 :> g1)
MCInviteKey   == (c1 :> k1) @@ (c2 :> k2)

MCAvatarOf   == (u1 :> NoAvatar) @@ (u2 :> a2)
MCNameOf     == (u1 :> NoName) @@ (u2 :> NoName)
MCNoAvatarOf == u2 :> NoAvatar
MCNoNameOf   == u2 :> NoName

MCRunSymmetry == Permutations(RunIDs)
=============================================================================
