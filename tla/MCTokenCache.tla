---------------------------- MODULE MCTokenCache ----------------------------
(* The operations that the processes of TokenCache may begin.               *)
EXTENDS TokenCache

MCKeys == {"id", "mfa"}
MCMenu ==
    {[name |-> "store", key |-> k, token |-> "t"] : k \in MCKeys}
      \cup {[name |-> "remove", key |-> "id", token |-> NoToken],
            [name |-> "retrieve", key |-> "id", token |-> NoToken]}
=============================================================================
