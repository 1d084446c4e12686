--------------------------- MODULE MCAccounts ---------------------------
(* Instances of Accounts for TLC. *)
EXTENDS Accounts, TLC

MCEmails == {"ann@x", "dummy-admin@x", "dummy-user@x"}
MCSpellings == MCEmails \cup {"Ann@X", "ann"}
MCNormalizeEmail == [e \in MCSpellings |-> IF e = "Ann@X" THEN "ann@x" ELSE e]
MCPasswords == {"pw", " pw ", "other", " ", ""}
MCTrimSpace == ("pw" :> "pw") @@ (" pw " :> "pw") @@ ("other" :> "other")
                   @@ (" " :> "") @@ ("" :> "")
MCDummyEmail == (DummyAdmin :> "dummy-admin@x") @@ (DummyUser :> "dummy-user@x")

(* Every reason to refuse a registration, two spellings of one email, two  *)
(* of one password, and the emails nobody may register.                    *)
AllRequests ==
    [op : {"register"}, email : {"ann@x", "Ann@X"}, password : {"pw", " pw "}, role : Roles]
    \cup [op : {"register"}, email : {"ann", "ann@x", "dummy-user@x"}, password : {"pw", " "},
          role : {"user", "guest"}]
    \cup [op : {"login"}, email : {"ann@x", "Ann@X", "dummy-user@x"},
          password : {"pw", " pw ", ""}]
    \cup DummyRequests \cup ProtectedRequests

CallSymmetry == Permutations(Calls)
=============================================================================
