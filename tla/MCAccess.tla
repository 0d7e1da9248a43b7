------------------------------ MODULE MCAccess ------------------------------
(* Instance of Access for TLC: two requests on two threads, two URIs, a proof
   for one of them, and the environments the registry tells apart.            *)
EXTENDS Access, TLC

CONSTANTS r1, r2, t1, t2, u1, u2, p1

MCRequests == {r1, r2}
MCThreads == {t1, t2}
MCUris == {u1, u2}
MCProofs == {p1}
MCProofUri == [p \in MCProofs |-> u1]
MCExpires == [p \in MCProofs |-> 0]
Symmetry == Permutations(MCRequests) \cup Permutations(MCThreads)

Void == [name |-> "void", secret |-> "", scopes |-> {}]
MCEnvs == { [tokens |-> { [name |-> "ops", secret |-> "s", scopes |-> {}],
                          [name |-> "mod", secret |-> "s", scopes |-> {"TakedownAdmin", "unknown"}],
                          [name |-> "old", secret |-> "s", scopes |-> {"unknown"}] },
             password |-> TRUE],
            [tokens |-> {Void}, password |-> TRUE] }

Jwt(scope, state) ==
    [uri |-> u1, proof |-> None, auth |-> [scheme |-> "bearer", scope |-> scope, state |-> state]]
Admin(name, secret) ==
    [uri |-> u1, proof |-> None, auth |-> [scheme |-> "basic", name |-> name, secret |-> secret]]
OAuth(uri, proof, granted) ==
    [uri |-> uri, proof |-> proof,
     auth |-> [scheme |-> "dpop", granted |-> granted, good |-> TRUE]]
Nobody == [uri |-> u1, proof |-> None, auth |-> None]

Admins == { Admin("ops", "s"), Admin("mod", "s"), Admin("old", "s"), Admin("void", ""),
            Admin("admin", "password") }

MCOffered ==
    {Jwt("Access", "good")}
        \X {AccessFull, AccessStandardIncludeChecks, OptionalAccessOrAdminToken, UserDidAuthOptional}
    \cup {Jwt("AppPass", "good")} \X {AccessStandard, AccessFull}
    \cup {Jwt("Refresh", "good")} \X {Refresh, RevokeRefreshToken}
    \cup {<<Jwt("Access", "expired"), AccessFullImport>>}
    \cup {Nobody} \X {OptionalAccessOrAdminToken, UserDidAuth, UserDidAuthOptional}
    \cup (Admins \ {Admin("ops", "s")}) \X {RequireAccountAdmin}
    \cup {<<Admin("ops", "s"), RequireInviteAdmin>>}
    \cup {Admin("mod", "s")} \X {RequireTakedownAdmin}
    \cup {Admin("mod", "s")} \X {AdminToken, Moderator}
    \cup { <<OAuth(u1, p1, {"atproto", "generic"}), AccessStandardIncludeChecks>>,
           <<OAuth(u1, p1, {"atproto", "generic"}), AccessFull>>,
           <<OAuth(u2, p1, {"atproto", "generic"}), AccessStandardIncludeChecks>>,
           <<OAuth(u1, None, {"atproto", "generic"}), AccessFull>>,
           <<OAuth(u1, p1, {"atproto", "chat"}), AccessPrivileged>>,
           <<OAuth(u1, p1, {"generic"}), AccessStandardCheckTakedown>> }
==============================================================================
