----------------------------- MODULE MCAccounts -----------------------------
(* Accounts and Passkeys instantiated for TLC. *)
EXTENDS Passkeys, TLC

UserRow(n) == [upn |-> n, profile |-> "a", active |-> "true", password |-> "", state |-> ""]

MCRow0 == ("u1" :> UserRow("n1")) @@ ("u2" :> UserRow("n2"))
              @@ ("g1" :> [profile |-> "a", description |-> "d"])

MCExt0 == ("u1" :> "e1") @@ ("u2" :> "") @@ ("g1" :> "")

\* u2 may take the name of u1, which is taken unless u1 is renamed or deleted.
MCPatches == {[active |-> "false"], [upn |-> "n1"], [upn |-> "n3"], [profile |-> "b"]}

MCUserOps == {<<[op |-> "remove", path |-> "active", value |-> ""],
                [op |-> "add", path |-> "externalId", value |-> "e1"]>>,
              <<[op |-> "replace", path |-> "profile", value |-> "b"],
                [op |-> "remove", path |-> "upn", value |-> ""]>>}

MCGroupOps == {<<[op |-> "replace", path |-> "profile", value |-> "b"],
                 [op |-> "add", path |-> "members", value |-> {"u1", "u2"}],
                 [op |-> "add", path |-> "externalId", value |-> "e1"]>>,
               <<[op |-> "remove", path |-> "profile", value |-> ""],
                 [op |-> "remove", path |-> "members", value |-> {}]>>}

MCValues == {"", "a", "b", "d", "n1", "n2", "n3", "e1", "true", "false", "reset",
             "PendingAcceptance", "Accepted"}

MCBegun == [c1 |-> "assert", c2 |-> "assert", c3 |-> "register"]
=============================================================================
