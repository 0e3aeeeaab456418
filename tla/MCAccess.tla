------------------------------- MODULE MCAccess -------------------------------
(* The constants of the TLC instances of Access. *)
EXTENDS Access

CONSTANTS b1, none, keep

Publish == [public |-> "true", expires |-> keep]
Hide == [public |-> "false", expires |-> keep]
Extend == [public |-> keep, expires |-> 2]
HideAndExtend == [public |-> "false", expires |-> 2]
SomeEdits == {Publish, Hide, Extend, HideAndExtend}
HideOrExtend == {Hide, Extend}

ToBlob(verbs) == {<<"blob", b1, v>> : v \in verbs}
AllPaths ==
    ToBlob({"download", "view", "sign", "chunk", "complete", "status", "other"})
    \cup {<<"blob">>, <<"blob", "initiate">>, <<"blob", "download">>, <<"blob", b1>>,
          <<"blob", b1, "sign", "download">>, <<"blob", b1, "sign", "other">>,
          <<"blob", b1, "other", "sign">>, <<"blob", b1, "view", "view">>, <<"blob", "x", "view">>}

KeyPerms == [reader |-> {"read"}, editor |-> {"read", "write"}, remover |-> {"delete"}, master |-> {"all"}]

\* Reads with and without a claim, writes by every kind of key and by none.
AnyToken == DOMAIN KeyPerms \cup {none}
SomeRequests ==
    ({"GET"} \X ToBlob({"download"}) \X {"reader", none})
    \cup ({"GET"} \X ({<<"blob", b1>>} \cup ToBlob({"view"})) \X {none})
    \cup ({"GET"} \X {<<"blob", b1>>} \X {"reader"})
    \cup ({"POST"} \X (ToBlob({"sign"}) \cup {<<"blob", b1, "sign", "other">>}) \X {"master"})
    \cup ({"POST", "DELETE"} \X {<<"blob", b1>>} \X AnyToken)

TwoEditors ==
    ({"GET"} \X ToBlob({"download"}) \X {none}) \cup ({"POST"} \X {<<"blob", b1>>} \X {"editor"})
AnyMethod == {"GET", "PUT", "POST", "DELETE"} \X ToBlob({"download"}) \X {none}
=============================================================================
