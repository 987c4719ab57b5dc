------------------------------- MODULE MCQuery -------------------------------
(* A small instance of Query. The selectors share segments with one another: *)
(* the repository ghe/octo, the organization octo on the host ghe, and       *)
(* several spellings of one target.                                          *)
EXTENDS Query

MCInputs ==
    {[repo |-> <<"octo", "app">>], [repo |-> <<"ghe", "octo">>, filter |-> 1], [owner |-> <<"ghe", "octo">>],
     [repo |-> <<"ghe", "octo", "app">>, patterns |-> 1], [days |-> 0], [repo |-> <<"octo">>],
     [owner |-> <<"octo">>, host |-> "ghe"], [repo |-> <<"ghe", "octo", "app">>, host |-> "github.com"]}
MCPatches ==
    {[owner |-> <<"octo">>, repo |-> <<>>], [repo |-> <<"github.com", "octo", "app">>], [host |-> "ghe"],
     [host |-> ""], [patterns |-> 2], [filter |-> 1], [days |-> 1], [labels |-> 1],
     [owner |-> <<"octo">>, repo |-> <<"octo", "app">>]}
(* An older version remembered the organization octo of the host ghe.        *)
MCLegacy ==
    [display \in {<<"ghe", "octo">>} |->
        [settings |-> [patterns |-> 2, labels |-> 1],
         of |-> [scope |-> "org", host |-> "ghe", path |-> <<"octo">>]]]
MCWorkspaces == {None, [nwo |-> <<"octo", "lib">>, host |-> "ghe"]}
=============================================================================
