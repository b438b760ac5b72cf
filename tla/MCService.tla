----------------------------- MODULE MCService -----------------------------
(***************************************************************************)
(* Instances of Service for TLC.  All identifiers have the last slot of a  *)
(* range of two or three as home, so that every second probe collides and  *)
(* wraps around.                                                           *)
(***************************************************************************)
EXTENDS Service, TLC

MCHash == [u1 |-> 5, u2 |-> 5, u3 |-> 11, g1 |-> 5, g2 |-> 11]

MCUserIds == {"u1", "u2", "u3"}
MCGroupIds == {"g1", "g2"}
MCNames == {"ann", "bob", "cat", "dev", "ops"}

User(id, name, groups, active) ==
  [id |-> id, user_name |-> name, groups |-> groups, active |-> active]
Group(id, name, members) == [id |-> id, name |-> name, members |-> members]

TwoNames == {"ann", "bob"}

(* Three users without groups: only uids collide. *)
ThreeUsers == {User("u1", "ann", <<>>, "true"), User("u2", "bob", <<>>, "absent"),
               User("u3", "cat", <<>>, "true")}
TwoUsers == {User("u1", "ann", <<>>, "true"), User("u2", "bob", <<>>, "true")}

(* An account that leaves its group, renamed and deactivated, and one that *)
(* takes over its old name.                                                *)
EditedUsers == {User("u1", "ann", <<"g1">>, "true"), User("u1", "bob", <<>>, "false"),
                User("u2", "ann", <<"g1", "g2">>, "absent")}

(* A group with a duplicate display and a member without one, which cannot *)
(* be stored whole, and a second group.                                    *)
EditedGroups == {Group("g1", "ann", <<NoDisplay, "bob", "bob">>), Group("g2", "bob", <<"bob">>)}

(* A private group for each of two users, whose gids collide.              *)
PrivateGroups == {Group("g1", "ann", <<"ann">>), Group("g2", "bob", <<"bob">>)}

(* An account that is deactivated, and one that takes over its name.       *)
OneName == {User("u1", "ann", <<>>, "true"), User("u1", "ann", <<>>, "false"),
            User("u2", "ann", <<>>, "absent")}
NoRecs == {}

(* All clients run with one configuration, or one of them still runs with  *)
(* an older one.                                                           *)
CachedStatus == [c \in Clients |-> "cached_status"]
OneDenies == [c \in Clients |-> IF c = CHOOSE d \in Clients : TRUE THEN "deny"
                                                                 ELSE "cached_status"]

(* Clients are interchangeable. *)
ClientSymmetry == Permutations(Clients)
=============================================================================
