---------------------------- MODULE MCCredentials ----------------------------
(* Small instances of Credentials. *)
EXTENDS Credentials, TLC

MCOwners == {"ministry", "agent", "settler"}
MCKind == [o \in MCOwners |-> IF o = "settler" THEN "secret" ELSE o]

CredentialsSymmetry ==
    UNION {Permutations(S) : S \in {Passphrases, DocumentIds, Bodies, Requests}}
=============================================================================
